---------------------------- MODULE Spec2Model ----------------------------
(***************************************************************************)
(* Resilient generation invocation layer of the Extension_Pro backend:     *)
(* the Gemini and OpenAI clients (credential rotation, retry, backoff,     *)
(* failure classification), the JSON extractor of the controllers and the  *)
(* sanitizer of the audit middleware.                                      *)
(*                                                                         *)
(* JavaScript values are tagged records: [t |-> "undef"], [t |-> "num"],   *)
(* [t |-> "str"], ...; JavaScript strings are TLA+ strings, read as        *)
(* sequences of characters.                                                *)
(***************************************************************************)
EXTENDS Integers, Sequences, FiniteSets

\* ------------------------------------------------------------------------
\* JavaScript values and string primitives
\* ------------------------------------------------------------------------

Undef == [t |-> "undef"]

Null == [t |-> "null"]

Num(n) == [t |-> "num", n |-> n]

Str(s) == [t |-> "str", s |-> s]

Bool(b) == [t |-> "bool", b |-> b]

\* ToBoolean: what `v || w` and `if (v)` test
Truthy(v) ==
  CASE v.t = "undef" -> FALSE
    [] v.t = "null"  -> FALSE
    [] v.t = "num"   -> v.n # 0
    [] v.t = "str"   -> Len(v.s) > 0
    [] v.t = "bool"  -> v.b
    [] OTHER         -> TRUE

\* v || w
OrElse(v, w) == IF Truthy(v) THEN v ELSE w

Digit(d) == SubSeq("0123456789", d + 1, d + 1)

RECURSIVE NatToString(_)
NatToString(n) == IF n < 10 THEN Digit(n) ELSE NatToString(n \div 10) \o Digit(n % 10)

\* String(v)
JsString(v) ==
  CASE v.t = "str"   -> v.s
    [] v.t = "num"   -> NatToString(v.n)
    [] v.t = "undef" -> "undefined"
    [] v.t = "null"  -> "null"
    [] v.t = "bool"  -> IF v.b THEN "true" ELSE "false"
    [] OTHER         -> "[object Object]"

\* s.charAt(k - 1): the empty string outside the string
CharAt(s, k) == IF k \in 1..Len(s) THEN SubSeq(s, k, k) ELSE ""

UpperAlphabet == "ABCDEFGHIJKLMNOPQRSTUVWXYZ"

LowerAlphabet == "abcdefghijklmnopqrstuvwxyz"

UpperLetters == {CharAt(UpperAlphabet, k) : k \in 1..26}

LowerChar(c) ==
  IF c \in UpperLetters
  THEN CharAt(LowerAlphabet, CHOOSE k \in 1..26 : CharAt(UpperAlphabet, k) = c)
  ELSE c

RECURSIVE LowerFrom(_, _, _)
\* The characters first..last of s in lower case; the range is split in
\* halves so that the evaluation of a long string stays shallow
LowerFrom(s, first, last) ==
  IF first > last THEN ""
  ELSE IF first = last THEN LowerChar(CharAt(s, first))
  ELSE LET middle == (first + last) \div 2
       IN  LowerFrom(s, first, middle) \o LowerFrom(s, middle + 1, last)

\* String.prototype.toLowerCase
ToLowerCase(s) == LowerFrom(s, 1, Len(s))

\* String.prototype.includes
Includes(s, sub) ==
  \E k \in 1..(Len(s) - Len(sub) + 1) : SubSeq(s, k, k + Len(sub) - 1) = sub

RECURSIVE Pow2(_)
\* Math.pow(2, n) for n >= 0
Pow2(n) == IF n = 0 THEN 1 ELSE 2 * Pow2(n - 1)

\* ------------------------------------------------------------------------
\* errors.js: AppError
\* ------------------------------------------------------------------------

\* errors.js ERROR_CODES
ERROR_CODES ==
  {"INVALID_API_KEY", "MISSING_API_KEY", "AUTH_REQUIRED", "AUTH_ERROR", "FORBIDDEN",
   "API_KEY_INACTIVE", "USER_DELETED", "USER_NOT_VERIFIED", "DATA_ERROR",
   "VALIDATION_ERROR", "MISSING_FIELD", "INVALID_FIELD", "INVALID_FILE_TYPE",
   "FILE_TOO_LARGE", "INVALID_JSON", "INVALID_FORMAT", "NOT_FOUND",
   "RESOURCE_NOT_FOUND", "RECORD_NOT_FOUND", "DUPLICATE_ENTRY", "ALREADY_EXISTS",
   "QUOTA_EXCEEDED", "RATE_LIMIT_EXCEEDED", "INTERNAL_SERVER_ERROR", "DATABASE_ERROR",
   "DATABASE_CONNECTION_ERROR", "EXTERNAL_SERVICE_ERROR", "SERVICE_UNAVAILABLE",
   "CONFIGURATION_ERROR", "AI_SERVICE_ERROR", "AI_QUOTA_EXCEEDED",
   "AI_INVALID_RESPONSE", "AI_TIMEOUT"}

\* errors.js ERROR_STATUS_MAP: the codes whose status is 401
UNAUTHORIZED_CODES == {"INVALID_API_KEY", "MISSING_API_KEY", "AUTH_REQUIRED", "AUTH_ERROR"}

\* new AppError(errorCode, message, statusCode) with an explicit status
AppError(errorCode, message, statusCode) ==
  [class |-> "AppError", errorCode |-> errorCode, message |-> message,
   statusCode |-> statusCode]

\* ------------------------------------------------------------------------
\* Failure classifiers
\* ------------------------------------------------------------------------

\* What a provider library throws: message, code and status as the library
\* sets them, and the status of the attached HTTP response (error.response)
UpstreamError(message, code, status, responseStatus) ==
  [class |-> "Error", message |-> message, code |-> code, status |-> status,
   responseStatus |-> responseStatus]

\* GeminiIsRetryableError altered: any failure that carries an HTTP
\* status counts as retryable
GeminiIsRetryableErrorAnyStatus(error) ==
  \/ Includes(ToLowerCase(JsString(OrElse(error.message, Str("")))), "overloaded")
  \/ JsString(OrElse(error.status, Str(""))) # ""

\* geminiClient.js isRetryableError (error is an object, so `!error` is false)
GeminiIsRetryableError(error) ==
  LET errorMessage == ToLowerCase(JsString(OrElse(error.message, Str(""))))
      errorCode    == JsString(OrElse(error.code, Str("")))
      errorStatus  == JsString(OrElse(error.status, Str("")))
  IN  \/ Includes(errorMessage, "503")
      \/ Includes(errorMessage, "service unavailable")
      \/ Includes(errorMessage, "overloaded")
      \/ Includes(errorMessage, "try again later")
      \/ Includes(errorMessage, "temporarily unavailable")
      \/ errorStatus = "503"
      \/ errorCode = "503"
      \/ errorStatus = "429"
      \/ errorCode = "429"

\* error.message?.toLowerCase().includes(sub): undefined (falsy) without a message
MessageLowerIncludes(error, sub) ==
  /\ error.message.t = "str"
  /\ Includes(ToLowerCase(error.message.s), sub)

\* The OpenAI classifier reading error.status alone, without the fall back to
\* response.status and code
OpenAIIsRetryableErrorStatusOnly(error) ==
  \/ JsString(OrElse(error.status, Str(""))) \in {"429", "500", "502", "503"}
  \/ MessageLowerIncludes(error, "rate limit")
  \/ MessageLowerIncludes(error, "server error")
  \/ MessageLowerIncludes(error, "timeout")

\* openaiClient.js isRetryableError
OpenAIIsRetryableError(error) ==
  LET status     == OrElse(error.status, OrElse(error.responseStatus, error.code))
      statusCode == JsString(OrElse(status, Str("")))
  IN  \/ statusCode \in {"429", "500", "502", "503"}
      \/ MessageLowerIncludes(error, "rate limit")
      \/ MessageLowerIncludes(error, "server error")
      \/ MessageLowerIncludes(error, "timeout")

\* ------------------------------------------------------------------------
\* Invocation engine: generateContentWithFallback of both clients
\* ------------------------------------------------------------------------

\* Largest maxRetries argument explored
MaxRetriesBound == 2

GEMINI_ENV == <<"GEMINI_API_KEY", "GEMINI_API_KEY_FALLBACK_1", "GEMINI_API_KEY_FALLBACK_2">>

OPENAI_ENV == "OPEN_AI_KEY"

Overloaded503 ==
  UpstreamError(Str("503 Overloaded"),
                Undef, Num(503), Undef)

RateLimited429 ==
  UpstreamError(Str("Rate limit"), Str("rate_limit_exceeded"),
                Num(429), Undef)

Unauthorized401 ==
  UpstreamError(Str("Invalid key"),
                Undef, Num(401), Undef)

TimedOut == UpstreamError(Str("Timeout"), Str("ETIMEDOUT"), Undef, Undef)

\* The failures an upstream call may end with
UpstreamErrors == {Overloaded503, RateLimited429, Unauthorized401, TimedOut}

VARIABLES
  provider,      \* which client module is called: "gemini" or "openai"
  env,           \* the names of the process.env credentials that are set
  maxRetries,    \* the maxRetries argument
  pc,            \* "idle", "sleeping", "calling", "returned", "thrown"
  i,             \* index of the API key in use (0-based, as in the code)
  retryAttempt,  \* retry counter of the inner loop
  lastError,     \* Null or the last caught error
  outcome,       \* Null, the response returned or the error thrown
  calls,         \* upstream calls started so far
  inFlight,      \* upstream calls started and not yet settled
  timers,        \* backoff timers started and not yet fired
  log,           \* the sleeps and upstream calls of this invocation, in order
  arg,           \* the argument of the helper function under study, or Null
  ret,           \* what that function returned or threw, Null before the call
  SLACK_WEBHOOK_URL, \* process.env.SLACK_WEBHOOK_URL as slackNotifier.js read it
  notifier,      \* which slackNotifier.js runs: "compact" or "friendly"
  npc,           \* notifySlack: "idle", "posting" (POST in flight), "done"
  settled,       \* the promise of notifySlack: "pending", "resolved", "rejected"
  posts,         \* the payloads handed to axios.post, in order
  console,       \* the lines written with console.warn / console.error
  unhandled,     \* exceptions and rejections nothing caught
  reqs,          \* the HTTP requests: what the middleware closure of each holds
  immediates,    \* the setImmediate callbacks queued and not yet run
  auditLog,      \* the rows of the auditLog table
  slackCalls     \* the notifier calls made for HTTP requests, in order

engineVars ==
  <<provider, env, maxRetries, pc, i, retryAttempt, lastError, outcome,
    calls, inFlight, timers, log>>

notifyVars == <<SLACK_WEBHOOK_URL, notifier, npc, settled, posts>>

processVars == <<console, unhandled>>

httpVars == <<reqs, immediates, auditLog, slackCalls>>

sideVars == <<notifyVars, processVars, httpVars>>

helperVars == <<arg, ret, sideVars>>

vars == <<engineVars, helperVars>>

\* No notification under way, nothing logged
NotifierIdle ==
  /\ SLACK_WEBHOOK_URL = Undef
  /\ notifier = "none"
  /\ npc = "idle"
  /\ settled = "pending"
  /\ posts = << >>

ProcessQuiet ==
  /\ console = << >>
  /\ unhandled = 0

\* Largest number of HTTP requests received
MaxRequests == 2

RequestIds == 1..MaxRequests

\* A request that has not arrived
NoRequest ==
  [stage |-> "none", req |-> Null, user |-> Null, statusCode |-> 200,
   responseBody |-> Null, responseSent |-> FALSE, sent |-> Null,
   auditLogData |-> Null, turns |-> << >>]

\* No request received, nothing queued or stored
HttpIdle ==
  /\ reqs = [r \in RequestIds |-> NoRequest]
  /\ immediates = << >>
  /\ auditLog = {}
  /\ slackCalls = << >>

SideIdle == NotifierIdle /\ ProcessQuiet /\ HttpIdle

\* geminiClient.js getApiKeys: the configured keys, primary first
getApiKeys ==
  LET Keep(k) == GEMINI_ENV[k] \in env
      F[k \in 0..3] ==
        IF k = 0 THEN << >>
        ELSE IF Keep(k) THEN Append(F[k - 1], GEMINI_ENV[k]) ELSE F[k - 1]
  IN  F[3]

CallEvent(key, attempt) == [ev |-> "call", key |-> key, attempt |-> attempt]

SleepEvent(key, attempt, ms) == [ev |-> "sleep", key |-> key, attempt |-> attempt, ms |-> ms]

FailEvent(key, error) == [ev |-> "fail", key |-> key, error |-> error]

OkEvent(key) == [ev |-> "ok", key |-> key]

\* `await model.generateContent(prompt)` / `await client.chat.completions
\* .create(...)`: the upstream request leaves and the caller is suspended on
\* its promise. fl and tm are the calls in flight and the timers pending when
\* the request leaves, history the log up to there.
StartCall(key, attempt, fl, tm, history) ==
  /\ pc' = "calling"
  /\ i' = key
  /\ retryAttempt' = attempt
  /\ calls' = calls + 1
  /\ inFlight' = fl + 1
  /\ timers' = tm
  /\ log' = Append(history, CallEvent(key, attempt))
  /\ outcome' = outcome

\* StartSleep altered: the timer is set but not awaited, the retry
\* leaves at once
StartSleepNotAwaited(key, attempt, delay, fl, tm, history) ==
  /\ pc' = "calling"
  /\ i' = key
  /\ retryAttempt' = attempt
  /\ calls' = calls + 1
  /\ inFlight' = fl + 1
  /\ timers' = tm + 1
  /\ log' = history \o <<SleepEvent(key, attempt, delay), CallEvent(key, attempt)>>
  /\ outcome' = outcome

\* StartSleep altered: the timer callback does not resolve the promise, the
\* caller stays suspended
StartSleepNeverResolved(key, attempt, delay, fl, tm, history) ==
  /\ pc' = "suspended"
  /\ i' = key
  /\ retryAttempt' = attempt
  /\ calls' = calls
  /\ inFlight' = fl
  /\ timers' = tm
  /\ log' = Append(history, SleepEvent(key, attempt, delay))
  /\ outcome' = outcome

\* `await new Promise(resolve => setTimeout(resolve, delay))`: the timer is
\* set and the caller is suspended until it fires
StartSleep(key, attempt, delay, fl, tm, history) ==
  /\ pc' = "sleeping"
  /\ i' = key
  /\ retryAttempt' = attempt
  /\ calls' = calls
  /\ inFlight' = fl
  /\ timers' = tm + 1
  /\ log' = Append(history, SleepEvent(key, attempt, delay))
  /\ outcome' = outcome

\* return / throw: the invocation is over
Finish(how, value, fl, history) ==
  /\ pc' = how
  /\ outcome' = value
  /\ inFlight' = fl
  /\ log' = history
  /\ UNCHANGED <<i, retryAttempt, calls, timers>>

\* ----- Gemini client ----------------------------------------------------

\* GeminiKeyLoopTest altered: the key loop runs one index too far
GeminiKeyLoopTestOffByOne(k) == k <= Len(getApiKeys)

\* for (let i = 0; i < apiKeys.length; i++)
GeminiKeyLoopTest(k) == k < Len(getApiKeys)

\* GeminiDelay altered: the exponent is the attempt, not the attempt less one
GeminiDelayExponentOffByOne(attempt) == Pow2(attempt) * 1000

\* Exponential backoff: Math.pow(2, retryAttempt - 1) * 1000
GeminiDelay(attempt) == Pow2(attempt - 1) * 1000

\* GeminiShouldRetry altered: the last retry is not made
GeminiShouldRetryOneLess(error, attempt) ==
  GeminiIsRetryableError(error) /\ attempt < maxRetries - 1

\* if (isRetryable && retryAttempt < maxRetries) continue
GeminiShouldRetry(error, attempt) ==
  GeminiIsRetryableError(error) /\ attempt < maxRetries

\* GeminiFinalError altered: the last caught error is rethrown as it is
GeminiFinalErrorRethrown(last) ==
  IF last = Null
  THEN AppError("AI_SERVICE_ERROR", "All AI API keys failed. Please try again later.", 502)
  ELSE last

\* What is thrown once every key and retry is exhausted
GeminiFinalError(last) ==
  IF last # Null
  THEN IF last.class # "AppError"
       THEN LET errorMessage == ToLowerCase(JsString(OrElse(last.message, Str(""))))
            IN  IF \/ Includes(errorMessage, "overloaded")
                   \/ Includes(errorMessage, "service unavailable")
                THEN AppError("AI_SERVICE_ERROR",
                       "AI service is temporarily overloaded. Please try again in a few moments.",
                       503)
                ELSE AppError("AI_SERVICE_ERROR",
                       JsString(OrElse(last.message, Str("AI service error occurred"))),
                       502)
       ELSE last
  ELSE AppError("AI_SERVICE_ERROR", "All AI API keys failed. Please try again later.", 502)

\* The body of the key loop from its test on: the first attempt on key k
\* (retryAttempt = 0 <= maxRetries, no delay), or the final throw
GeminiNextKey(k, last, fl, history) ==
  IF GeminiKeyLoopTest(k)
  THEN StartCall(k, 0, fl, timers, history)
  ELSE Finish("thrown", GeminiFinalError(last), fl, history)

\* G_Invoke altered: the check for an empty key list is left out
G_InvokeUnchecked ==
  /\ pc = "idle"
  /\ provider = "gemini"
  /\ GeminiNextKey(0, Null, inFlight, log)
  /\ UNCHANGED <<provider, env, maxRetries, lastError, helperVars>>

\* generateContentWithFallback is called: up to the first await or throw
G_Invoke ==
  /\ pc = "idle"
  /\ provider = "gemini"
  /\ IF Len(getApiKeys) = 0
     THEN Finish("thrown",
            AppError("CONFIGURATION_ERROR",
              "No Gemini API keys configured. Please set GEMINI_API_KEY in environment variables.",
              500),
            inFlight, log)
     ELSE GeminiNextKey(0, Null, inFlight, log)
  /\ UNCHANGED <<provider, env, maxRetries, lastError, helperVars>>

\* The backoff timer fires: the retry leaves
G_SleepDone ==
  /\ pc = "sleeping"
  /\ provider = "gemini"
  /\ StartCall(i, retryAttempt, inFlight, timers - 1, log)
  /\ UNCHANGED <<provider, env, maxRetries, lastError, helperVars>>

\* The upstream call resolves: return response
G_CallOk ==
  /\ pc = "calling"
  /\ provider = "gemini"
  /\ Finish("returned", [class |-> "Response", key |-> i],
            inFlight - 1, Append(log, OkEvent(i)))
  /\ UNCHANGED <<provider, env, maxRetries, lastError, helperVars>>

\* G_CallFail altered: a non-retryable failure is thrown at once, as
\* the client did before it retried
G_CallFailThrowsTerminal(error) ==
  /\ pc = "calling"
  /\ provider = "gemini"
  /\ lastError' = error
  /\ LET history == Append(log, FailEvent(i, error))
     IN  IF GeminiShouldRetry(error, retryAttempt)
         THEN StartSleep(i, retryAttempt + 1, GeminiDelay(retryAttempt + 1),
                         inFlight - 1, timers, history)
         ELSE IF ~GeminiIsRetryableError(error)
              THEN Finish("thrown", GeminiFinalError(error), inFlight - 1, history)
              ELSE GeminiNextKey(i + 1, error, inFlight - 1, history)
  /\ UNCHANGED <<provider, env, maxRetries, helperVars>>

\* G_CallFail altered: lastError keeps the first error caught
G_CallFailKeepsFirst(error) ==
  /\ pc = "calling"
  /\ provider = "gemini"
  /\ LET history == Append(log, FailEvent(i, error))
         kept    == IF lastError = Null THEN error ELSE lastError
     IN  /\ lastError' = kept
         /\ IF GeminiShouldRetry(error, retryAttempt)
            THEN StartSleep(i, retryAttempt + 1, GeminiDelay(retryAttempt + 1),
                            inFlight - 1, timers, history)
            ELSE GeminiNextKey(i + 1, kept, inFlight - 1, history)
  /\ UNCHANGED <<provider, env, maxRetries, helperVars>>

\* The upstream call rejects: the catch block, then the next attempt (after
\* its backoff), the next key, or the final throw
G_CallFail(error) ==
  /\ pc = "calling"
  /\ provider = "gemini"
  /\ lastError' = error
  /\ LET history == Append(log, FailEvent(i, error))
     IN  IF GeminiShouldRetry(error, retryAttempt)
         THEN StartSleep(i, retryAttempt + 1, GeminiDelay(retryAttempt + 1),
                         inFlight - 1, timers, history)
         ELSE GeminiNextKey(i + 1, error, inFlight - 1, history)
  /\ UNCHANGED <<provider, env, maxRetries, helperVars>>

\* ----- OpenAI client ----------------------------------------------------

\* for (let retryAttempt = 0; retryAttempt <= maxRetries; retryAttempt++)
OpenAILoopTest(attempt) == attempt <= maxRetries

\* Exponential backoff: Math.pow(2, retryAttempt - 1) * 500
OpenAIDelay(attempt) == Pow2(attempt - 1) * 500

\* What is thrown once the retry loop is left without a response
OpenAIFinalError(last) ==
  IF last # Null
  THEN LET errorMessage == JsString(OrElse(last.message, Str("AI service error occurred")))
       IN  IF Includes(errorMessage, "rate limit") \/ Includes(errorMessage, "429")
           THEN AppError("AI_SERVICE_ERROR",
                  "AI service rate limit exceeded. Please try again in a few moments.", 429)
           ELSE IF Includes(errorMessage, "overloaded") \/ Includes(errorMessage, "503")
                THEN AppError("AI_SERVICE_ERROR",
                       "AI service is temporarily overloaded. Please try again in a few moments.",
                       503)
                ELSE AppError("AI_SERVICE_ERROR", errorMessage, 502)
  ELSE AppError("AI_SERVICE_ERROR", "OpenAI API request failed. Please try again later.", 502)

\* generateContentWithFallback is called: getApiKey(), then up to the first
\* await or throw
O_Invoke ==
  /\ pc = "idle"
  /\ provider = "openai"
  /\ IF OPENAI_ENV \notin env
     THEN Finish("thrown",
            AppError("CONFIGURATION_ERROR",
              "No OpenAI API key configured. Please set OPEN_AI_KEY in environment variables.",
              500),
            inFlight, log)
     ELSE IF OpenAILoopTest(0)
          THEN StartCall(0, 0, inFlight, timers, log)
          ELSE Finish("thrown", OpenAIFinalError(Null), inFlight, log)
  /\ UNCHANGED <<provider, env, maxRetries, lastError, helperVars>>

\* The backoff timer fires: the retry leaves
O_SleepDone ==
  /\ pc = "sleeping"
  /\ provider = "openai"
  /\ StartCall(i, retryAttempt, inFlight, timers - 1, log)
  /\ UNCHANGED <<provider, env, maxRetries, lastError, helperVars>>

\* The upstream call resolves: return {text, usageMetadata}
O_CallOk ==
  /\ pc = "calling"
  /\ provider = "openai"
  /\ Finish("returned", [class |-> "Response", key |-> i],
            inFlight - 1, Append(log, OkEvent(i)))
  /\ UNCHANGED <<provider, env, maxRetries, lastError, helperVars>>

\* The upstream call rejects: the catch block, then the next iteration of
\* the retry loop (with its backoff) or the final throw
O_CallFail(error) ==
  /\ pc = "calling"
  /\ provider = "openai"
  /\ lastError' = error
  /\ LET history == Append(log, FailEvent(i, error))
         isRetryable == OpenAIIsRetryableError(error)
     IN  IF ~isRetryable /\ ~(isRetryable /\ retryAttempt < maxRetries)
         THEN Finish("thrown", OpenAIFinalError(error), inFlight - 1, history)
         ELSE IF OpenAILoopTest(retryAttempt + 1)
              THEN StartSleep(0, retryAttempt + 1, OpenAIDelay(retryAttempt + 1),
                              inFlight - 1, timers, history)
              ELSE Finish("thrown", OpenAIFinalError(error), inFlight - 1, history)
  /\ UNCHANGED <<provider, env, maxRetries, helperVars>>

\* ----- Specification of the invocation engine ----------------------------

Init ==
  /\ provider \in {"gemini", "openai"}
  /\ env \in IF provider = "gemini"
             THEN SUBSET {GEMINI_ENV[k] : k \in 1..3}
             ELSE SUBSET {OPENAI_ENV}
  /\ maxRetries \in 0..MaxRetriesBound
  /\ pc = "idle"
  /\ i = 0
  /\ retryAttempt = 0
  /\ lastError = Null
  /\ outcome = Null
  /\ calls = 0
  /\ inFlight = 0
  /\ timers = 0
  /\ log = << >>
  /\ arg = Null
  /\ ret = Null
  /\ SideIdle

Next ==
  \/ G_Invoke
  \/ G_SleepDone
  \/ G_CallOk
  \/ \E error \in UpstreamErrors : G_CallFail(error)
  \/ O_Invoke
  \/ O_SleepDone
  \/ O_CallOk
  \/ \E error \in UpstreamErrors : O_CallFail(error)

Spec == Init /\ [][Next]_vars

TypeOK ==
  /\ pc \in {"idle", "sleeping", "calling", "returned", "thrown"}
  /\ calls \in Nat /\ inFlight \in Nat /\ timers \in Nat

\* ------------------------------------------------------------------------
\* Properties of the invocation engine (checked under Spec)
\* ------------------------------------------------------------------------

Done == pc \in {"returned", "thrown"}

\* The size of the credential pool the invocation iterates over
PoolSize == IF provider = "gemini" THEN Len(getApiKeys) ELSE 1

NoCredential ==
  IF provider = "gemini" THEN Len(getApiKeys) = 0 ELSE OPENAI_ENV \notin env

Events(kind) == SelectSeq(log, LAMBDA e : e.ev = kind)

EventsOn(kind, key) == SelectSeq(log, LAMBDA e : e.ev = kind /\ e.key = key)

\* The log without the backoff sleeps
CallsAndResults == SelectSeq(log, LAMBDA e : e.ev # "sleep")

\* C1: one invocation starts at most N*(R+1) upstream calls, N the size of
\* the credential pool (1 on the OpenAI path) and R = maxRetries, whatever
\* the upstream failures are.
C1_BoundedCalls ==
  /\ calls = Len(Events("call"))
  /\ calls <= PoolSize * (maxRetries + 1)

\* C1 witness: a terminal failure after the whole budget of 3*(2+1) calls.
C1_Witness ==
  /\ pc = "thrown"
  /\ provider = "gemini"
  /\ PoolSize = 3
  /\ maxRetries = 2
  /\ calls = 9

\* C2: at most one upstream call is in flight, and no call is in flight
\* while a backoff timer is pending: a call leaves only when the previous
\* call has settled and the sleep before it has ended.
C2_Sequential ==
  /\ inFlight <= 1
  /\ timers <= 1
  /\ inFlight + timers <= 1
  /\ (pc = "calling") = (inFlight = 1)
  /\ (pc = "sleeping") = (timers = 1)

\* C2 witness: a retry in flight on a fallback key, after a sleep.
C2_Witness ==
  /\ pc = "calling"
  /\ i = 1
  /\ retryAttempt = 2
  /\ Len(Events("sleep")) >= 3

RECURSIVE FailedAttempts(_, _, _)
\* attempts 0..last on one key, each failing with the same error
FailedAttempts(key, error, last) ==
  IF last < 0 THEN << >>
  ELSE FailedAttempts(key, error, last - 1)
         \o <<CallEvent(key, last), FailEvent(key, error)>>

\* Scenario 1: the pool is [A, B], every call on A failed with the 503
\* "overloaded" error and no call on B failed
ScenarioAOverloadedBFine ==
  /\ provider = "gemini"
  /\ Len(getApiKeys) = 2
  /\ Len(EventsOn("ok", 0)) = 0
  /\ \A k \in 1..Len(log) :
       log[k].ev = "fail" => log[k].key = 0 /\ log[k].error = Overloaded503

\* C3: in scenario 1 the invocation returns B's response after exactly
\* maxRetries+1 failed calls on A followed by exactly one call on B.
C3_FallbackAfterRetries ==
  (Done /\ ScenarioAOverloadedBFine) =>
    /\ pc = "returned"
    /\ outcome = [class |-> "Response", key |-> 1]
    /\ CallsAndResults =
         FailedAttempts(0, Overloaded503, maxRetries) \o <<CallEvent(1, 0), OkEvent(1)>>

\* C3 witness: scenario 1 ran to its end with the default maxRetries = 2.
C3_Witness ==
  /\ Done
  /\ ScenarioAOverloadedBFine
  /\ maxRetries = 2
  /\ Len(EventsOn("call", 0)) = 3
  /\ Len(EventsOn("call", 1)) = 1

\* Scenario 2: a pool of one credential whose first call failed with the
\* non-retryable 401 error
ScenarioSingleKeyUnauthorized ==
  /\ PoolSize = 1
  /\ ~NoCredential
  /\ Len(Events("fail")) >= 1
  /\ Events("fail")[1].error = Unauthorized401

IsUnauthorizedKind(e) ==
  /\ e.class = "AppError"
  /\ e.errorCode \in UNAUTHORIZED_CODES \/ e.statusCode = 401

TerminalFailureStep ==
  /\ Len(log') > Len(log)
  /\ log'[Len(log) + 1].ev = "fail"
  /\ ~GeminiIsRetryableError(log'[Len(log) + 1].error)

KeysCalled == {log[k].key : k \in {j \in 1..Len(log) : log[j].ev = "call"}}

C6_NoCredentialFailsAtOnce ==
  (NoCredential /\ pc # "idle") =>
    /\ pc = "thrown"
    /\ outcome.class = "AppError"
    /\ outcome.errorCode = "CONFIGURATION_ERROR"
    /\ outcome.statusCode = 500
    /\ calls = 0
    /\ timers = 0
    /\ log = << >>

\* C6 witness: a Gemini invocation without any key has thrown.
C6_Witness ==
  /\ provider = "gemini"
  /\ NoCredential
  /\ pc = "thrown"

EngineIdle ==
  /\ provider = "none"
  /\ env = {}
  /\ maxRetries = 0
  /\ pc = "idle"
  /\ i = 0
  /\ retryAttempt = 0
  /\ lastError = Null
  /\ outcome = Null
  /\ calls = 0
  /\ inFlight = 0
  /\ timers = 0
  /\ log = << >>

ClassifierMessages ==
  {Undef, Str(""), Str("Rate limit"), Str("Quota exceeded"), Str("Overloaded"),
   Str("Service Unavailable"), Str("Try again later"), Str("Temporarily unavailable"),
   Str("Timeout"), Str("Server error"), Str("Error 503"), Str("Error 429"),
   Str("Invalid key")}

ClassifierCodes == {Undef, Num(429), Num(503), Str("ETIMEDOUT")}

ClassifierStatuses ==
  {Undef, Num(401), Num(429), Num(500), Num(502), Num(503), Str("503")}

ClassifierResponseStatuses == {Undef, Num(401), Num(503)}

\* The failure objects the classifiers are applied to
ClassifierInputs ==
  {UpstreamError(m, c, st, rs) :
     m \in ClassifierMessages, c \in ClassifierCodes,
     st \in ClassifierStatuses, rs \in ClassifierResponseStatuses}

InitClassify ==
  /\ EngineIdle
  /\ SideIdle
  /\ arg \in ClassifierInputs
  /\ ret = Null

\* geminiClient.js: isRetryableError(error) is evaluated
ClassifyGemini ==
  /\ ret = Null
  /\ arg \in ClassifierInputs
  /\ ret' = [fn |-> "gemini", retryable |-> GeminiIsRetryableError(arg)]
  /\ UNCHANGED <<engineVars, arg, sideVars>>

\* openaiClient.js: isRetryableError(error) is evaluated
ClassifyOpenAI ==
  /\ ret = Null
  /\ arg \in ClassifierInputs
  /\ ret' = [fn |-> "openai", retryable |-> OpenAIIsRetryableError(arg)]
  /\ UNCHANGED <<engineVars, arg, sideVars>>

NextClassify == ClassifyGemini \/ ClassifyOpenAI

SpecClassify == InitClassify /\ [][NextClassify]_vars

\* ----- Properties of the classifiers (checked under SpecClassify) --------

\* The lower-cased message of a failure contains sub
MessageHas(e, sub) == e.message.t = "str" /\ Includes(ToLowerCase(e.message.s), sub)

\* The failure's status is the number n, or n written as a string
StatusIs(e, n) == e.status \in {Num(n), Str(NatToString(n))}

CodeIs(e, n) == e.code \in {Num(n), Str(NatToString(n))}

\* Section 4.2 rule 1: HTTP 429, "rate limit", "quota"
RateLimitSignal(e) ==
  StatusIs(e, 429) \/ MessageHas(e, "rate limit") \/ MessageHas(e, "quota")

\* Section 4.2 rule 2: HTTP 500/502/503 and the four overload phrases
OverloadSignal(e) ==
  \/ \E n \in {500, 502, 503} : StatusIs(e, n)
  \/ \E w \in {"overloaded", "service unavailable", "try again later",
               "temporarily unavailable"} : MessageHas(e, w)

\* An unauthorized failure that carries no retry signal of any kind
UnauthorizedOnly(e) ==
  /\ StatusIs(e, 401) \/ MessageHas(e, "invalid key")
  /\ ~RateLimitSignal(e) /\ ~OverloadSignal(e)
  /\ e.code \in {Undef, Str("ETIMEDOUT")}
  /\ e.responseStatus \in {Undef, Num(401)}
  /\ \A w \in {"timeout", "server error", "503", "429"} : ~MessageHas(e, w)

Classifier(fn, e) ==
  IF fn = "gemini" THEN GeminiIsRetryableError(e) ELSE OpenAIIsRetryableError(e)

\* The result is the same whatever error.response.status is
IgnoresResponseStatus ==
  \A rs \in ClassifierResponseStatuses :
    Classifier(ret.fn, [arg EXCEPT !.responseStatus = rs]) = ret.retryable

\* C8 as claimed: every failure with a rate-limit or an overload signal is
\* retryable, every unauthorized failure is not, and the result depends on
\* message, code and status only.
C8_AsClaimed ==
  ret # Null =>
    /\ (RateLimitSignal(arg) \/ OverloadSignal(arg)) => ret.retryable
    /\ UnauthorizedOnly(arg) => ~ret.retryable
    /\ IgnoresResponseStatus

\* What geminiClient.js looks for
GeminiSignal(e) ==
  \/ \E n \in {429, 503} : StatusIs(e, n) \/ CodeIs(e, n)
  \/ \E w \in {"503", "service unavailable", "overloaded", "try again later",
               "temporarily unavailable"} : MessageHas(e, w)

\* What openaiClient.js looks for: the first truthy of status,
\* response.status and code
OpenAISignal(e) ==
  \/ LET first == IF Truthy(e.status) THEN e.status
                  ELSE IF Truthy(e.responseStatus) THEN e.responseStatus
                  ELSE e.code
     IN  \E n \in {429, 500, 502, 503} : first \in {Num(n), Str(NatToString(n))}
  \/ \E w \in {"rate limit", "server error", "timeout"} : MessageHas(e, w)

\* C8 amended: the Gemini classifier answers retryable exactly for status or
\* code 429/503 and for messages containing "503", "service unavailable",
\* "overloaded", "try again later" or "temporarily unavailable"; the OpenAI
\* classifier exactly when the first truthy of status, response.status and
\* code is 429/500/502/503 or the message contains "rate limit", "server
\* error" or "timeout". An unauthorized failure with none of these signals
\* is not retryable; the Gemini result depends on message, code and status
\* only.
C8_Classifiers ==
  ret # Null =>
    /\ ret.fn = "gemini" => (ret.retryable = GeminiSignal(arg)) /\ IgnoresResponseStatus
    /\ ret.fn = "openai" => (ret.retryable = OpenAISignal(arg))
    /\ UnauthorizedOnly(arg) => ~ret.retryable

\* C8 witness: the Gemini classifier was applied to a failure whose only
\* signal is the message "Rate limit" and answered not retryable.
C8_Witness ==
  /\ ret # Null
  /\ ret.fn = "gemini"
  /\ arg = UpstreamError(Str("Rate limit"), Undef, Undef, Undef)
  /\ ~ret.retryable

\* ------------------------------------------------------------------------
\* JSON.parse and the JSON extractors of the controllers (SpecExtract)
\* ------------------------------------------------------------------------

\* A JavaScript array and a plain object; the entries of an object are
\* kept in insertion order, as Object.entries lists them
Arr(items) == [t |-> "arr", a |-> items]

Obj(entries) == [t |-> "obj", e |-> entries]

Entry(key, value) == [k |-> key, v |-> value]

KeyIndex(entries, key) ==
  IF \E n \in 1..Len(entries) : entries[n].k = key
  THEN CHOOSE n \in 1..Len(entries) : entries[n].k = key
  ELSE 0

\* object[key] = value: an existing key keeps its place, a new one is added
\* at the end
SetEntry(entries, key, value) ==
  IF KeyIndex(entries, key) = 0
  THEN Append(entries, Entry(key, value))
  ELSE [entries EXCEPT ![KeyIndex(entries, key)] = Entry(key, value)]

\* White space of the JSON grammar
IsJsonSpace(c) == c \in {" ", "\n", "\t", "\r"}

IsDigit(c) == c \in {"0", "1", "2", "3", "4", "5", "6", "7", "8", "9"}

RECURSIVE SkipSpace(_, _)
\* The first position from p on that holds no white space
SkipSpace(s, p) ==
  IF p <= Len(s) /\ IsJsonSpace(CharAt(s, p)) THEN SkipSpace(s, p + 1) ELSE p

RECURSIVE DigitsEnd(_, _)
\* The first position from p on that holds no digit
DigitsEnd(s, p) ==
  IF p <= Len(s) /\ IsDigit(CharAt(s, p)) THEN DigitsEnd(s, p + 1) ELSE p

RECURSIVE DigitsValue(_, _, _)
DigitsValue(s, p, q) ==
  IF q < p THEN 0
  ELSE 10 * DigitsValue(s, p, q - 1)
         + (CHOOSE d \in 0..9 : Digit(d) = CharAt(s, q))

RECURSIVE QuoteEnd(_, _)
\* The position of the quote closing the string that opens before p, or 0:
\* a control character or an escape ends the scan (escapes are not modelled)
QuoteEnd(s, p) ==
  IF p > Len(s) \/ CharAt(s, p) \in {"\n", "\t", "\r", "\\"} THEN 0
  ELSE IF CharAt(s, p) = "\"" THEN p
  ELSE QuoteEnd(s, p + 1)

ParseFailed == [ok |-> FALSE]

Parsed(value, next) == [ok |-> TRUE, v |-> value, p |-> next]

\* A JSON string starting at the quote at p
ParseString(s, p) ==
  LET q == QuoteEnd(s, p + 1)
  IN  IF q = 0 THEN ParseFailed ELSE Parsed(Str(SubSeq(s, p + 1, q - 1)), q + 1)

\* A JSON number starting at p (integers without sign, no leading zero)
ParseNumber(s, p) ==
  LET q == DigitsEnd(s, p)
  IN  IF CharAt(s, p) = "0" /\ q > p + 1 THEN ParseFailed
      ELSE Parsed(Num(DigitsValue(s, p, q - 1)), q)

ParseLiteral(s, p, word, value) ==
  IF p + Len(word) - 1 <= Len(s) /\ SubSeq(s, p, p + Len(word) - 1) = word
  THEN Parsed(value, p + Len(word))
  ELSE ParseFailed

RECURSIVE ParseValue(_, _), ParseMembers(_, _, _), ParseElements(_, _, _)

\* A JSON value starting at the first non-space position from p on
ParseValue(s, p) ==
  LET q == SkipSpace(s, p)
      c == CharAt(s, q)
  IN  IF q > Len(s) THEN ParseFailed
      ELSE IF c = "{"
           THEN IF CharAt(s, SkipSpace(s, q + 1)) = "}"
                THEN Parsed(Obj(<< >>), SkipSpace(s, q + 1) + 1)
                ELSE ParseMembers(s, q + 1, << >>)
      ELSE IF c = "["
           THEN IF CharAt(s, SkipSpace(s, q + 1)) = "]"
                THEN Parsed(Arr(<< >>), SkipSpace(s, q + 1) + 1)
                ELSE ParseElements(s, q + 1, << >>)
      ELSE IF c = "\"" THEN ParseString(s, q)
      ELSE IF IsDigit(c) THEN ParseNumber(s, q)
      ELSE IF c = "t" THEN ParseLiteral(s, q, "true", Bool(TRUE))
      ELSE IF c = "f" THEN ParseLiteral(s, q, "false", Bool(FALSE))
      ELSE IF c = "n" THEN ParseLiteral(s, q, "null", Null)
      ELSE ParseFailed

\* The members of an object from p on, up to its closing brace
ParseMembers(s, p, acc) ==
  LET q   == SkipSpace(s, p)
      key == IF CharAt(s, q) = "\"" THEN ParseString(s, q) ELSE ParseFailed
      col == IF key.ok THEN SkipSpace(s, key.p) ELSE 0
      val == IF key.ok /\ CharAt(s, col) = ":" THEN ParseValue(s, col + 1) ELSE ParseFailed
      r   == IF val.ok THEN SkipSpace(s, val.p) ELSE 0
  IN  IF ~val.ok THEN ParseFailed
      ELSE IF CharAt(s, r) = ","
           THEN ParseMembers(s, r + 1, SetEntry(acc, key.v.s, val.v))
      ELSE IF CharAt(s, r) = "}"
           THEN Parsed(Obj(SetEntry(acc, key.v.s, val.v)), r + 1)
      ELSE ParseFailed

\* The elements of an array from p on, up to its closing bracket
ParseElements(s, p, acc) ==
  LET val == ParseValue(s, p)
      r   == IF val.ok THEN SkipSpace(s, val.p) ELSE 0
  IN  IF ~val.ok THEN ParseFailed
      ELSE IF CharAt(s, r) = "," THEN ParseElements(s, r + 1, Append(acc, val.v))
      ELSE IF CharAt(s, r) = "]" THEN Parsed(Arr(Append(acc, val.v)), r + 1)
      ELSE ParseFailed

\* JSON.parse(text): the value, or ParseFailed for a SyntaxError
JsonParse(text) ==
  LET r == ParseValue(text, 1)
  IN  IF r.ok /\ SkipSpace(text, r.p) > Len(text) THEN r ELSE ParseFailed

\* ----- keywords.js, experience.js: extractJSONFromString -----------------

\* The backquote cannot be written in a TLA+ string: the apostrophe stands
\* for it in every text of this model, so FENCE is the Markdown fence of
\* three backquotes
FENCE == "'''"

JSON_FENCE == FENCE \o "json"

RECURSIVE IndexOfFrom(_, _, _)
\* The first position from p on where sub occurs in s, or 0
IndexOfFrom(s, sub, p) ==
  IF p + Len(sub) - 1 > Len(s) THEN 0
  ELSE IF SubSeq(s, p, p + Len(sub) - 1) = sub THEN p
  ELSE IndexOfFrom(s, sub, p + 1)

RECURSIVE LastIndexOfUpTo(_, _, _)
\* The last position up to p where the character c occurs in s, or 0
LastIndexOfUpTo(s, c, p) ==
  IF p < 1 THEN 0
  ELSE IF CharAt(s, p) = c THEN p
  ELSE LastIndexOfUpTo(s, c, p - 1)

\* \s of a regular expression
IsRegexSpace(c) == c \in {" ", "\n", "\t", "\r"}

RECURSIVE SkipRegexSpace(_, _)
SkipRegexSpace(s, p) ==
  IF p <= Len(s) /\ IsRegexSpace(CharAt(s, p)) THEN SkipRegexSpace(s, p + 1) ELSE p

RECURSIVE TrimEnd(_, _, _)
\* The last position in p..q that holds no white space, or p - 1
TrimEnd(s, p, q) ==
  IF q < p THEN p - 1
  ELSE IF IsRegexSpace(CharAt(s, q)) THEN TrimEnd(s, p, q - 1)
  ELSE q

NoMatch == [found |-> FALSE, text |-> ""]

Match(text) == [found |-> TRUE, text |-> text]

\* input.match(/```json\s*([\s\S]*?)\s*```/): group 1 of the leftmost match.
\* The greedy \s* takes the white space after the tag, the lazy group stops
\* before the white space that precedes the next fence.
MatchJsonBlock(input) ==
  LET p     == IndexOfFrom(input, JSON_FENCE, 1)
      start == SkipRegexSpace(input, p + Len(JSON_FENCE))
      close == IndexOfFrom(input, FENCE, start)
  IN  IF p = 0 \/ close = 0 THEN NoMatch
      ELSE Match(SubSeq(input, start, TrimEnd(input, start, close - 1)))

\* input.match(/\{[\s\S]*\}/): greedy, from the first { to the last }
MatchBraces(input) ==
  LET p == IndexOfFrom(input, "{", 1)
      q == LastIndexOfUpTo(input, "}", Len(input))
  IN  IF p = 0 \/ q < p THEN NoMatch ELSE Match(SubSeq(input, p, q))

\* errors.js: new ValidationError(message)
ValidationError(message) == AppError("VALIDATION_ERROR", message, 400)

INVALID_BLOCK_MESSAGE == "Found a JSON block, but it contained invalid JSON."

NO_JSON_MESSAGE == "Could not find a valid JSON object in the model's response."

\* What extractJSONFromString returns or throws; tried lists the strategies
\* it went through
Extracted(value, tried) ==
  [ok |-> TRUE, value |-> value, error |-> Null, tried |-> tried]

ExtractFailed(message, tried) ==
  [ok |-> FALSE, value |-> Undef, error |-> ValidationError(message), tried |-> tried]

\* keywords.js extractJSONFromString from its second strategy on
ExtractWithoutBlock(input, tried) ==
  LET whole  == JsonParse(input)
      braces == MatchBraces(input)
      span   == IF braces.found THEN JsonParse(braces.text) ELSE ParseFailed
  IN  IF whole.ok THEN Extracted(whole.v, Append(tried, "whole"))
      ELSE IF braces.found /\ span.ok
           THEN Extracted(span.v, tried \o <<"whole", "braces">>)
      ELSE ExtractFailed(NO_JSON_MESSAGE,
             tried \o (IF braces.found THEN <<"whole", "braces">> ELSE <<"whole">>))

\* ExtractKeywords with an invalid block passed over: the other strategies
\* are tried after it
ExtractKeywordsPassingOver(input) ==
  LET jsonMatch == MatchJsonBlock(input)
      block     == IF jsonMatch.found THEN JsonParse(jsonMatch.text) ELSE ParseFailed
  IN  IF jsonMatch.found /\ block.ok
      THEN Extracted(block.v, <<"block">>)
      ELSE ExtractWithoutBlock(input, IF jsonMatch.found THEN <<"block">> ELSE << >>)

\* keywords.js extractJSONFromString
ExtractKeywords(input) ==
  LET jsonMatch == MatchJsonBlock(input)
      block     == IF jsonMatch.found THEN JsonParse(jsonMatch.text) ELSE ParseFailed
  IN  IF jsonMatch.found
      THEN IF block.ok
           THEN Extracted(block.v, <<"block">>)
           ELSE ExtractFailed(INVALID_BLOCK_MESSAGE, <<"block">>)
      ELSE ExtractWithoutBlock(input, << >>)

\* experience.js extractJSONFromString (coverletter.js has the same body)
ExtractExperience(input) ==
  LET jsonMatch == MatchJsonBlock(input)
      block     == IF jsonMatch.found THEN JsonParse(jsonMatch.text) ELSE ParseFailed
      whole     == JsonParse(input)
  IN  IF jsonMatch.found
      THEN IF block.ok
           THEN Extracted(block.v, <<"block">>)
           ELSE ExtractFailed(INVALID_BLOCK_MESSAGE, <<"block">>)
      ELSE IF whole.ok
           THEN Extracted(whole.v, <<"whole">>)
           ELSE ExtractFailed(NO_JSON_MESSAGE, <<"whole">>)

\* ----- The texts the extractors are applied to ---------------------------

\* Largest number of fenced or bare chunks in a text
MaxChunks == 2

VALID_OBJECT == "{\"a\":1}"

TRAILING_COMMA_OBJECT == "{\"a\":1,}"

\* A chunk: an optional opening fence, a content, an optional closing fence
Chunks ==
  {open \o inner \o close :
     open  \in {"", JSON_FENCE, JSON_FENCE \o "\n"},
     inner \in {"x", VALID_OBJECT, TRAILING_COMMA_OBJECT},
     close \in {"", "\n" \o FENCE}}

RECURSIVE ChunkTexts(_)
ChunkTexts(n) ==
  IF n = 0 THEN {""}
  ELSE {""} \cup {t \o c : t \in ChunkTexts(n - 1), c \in Chunks}

\* Model responses: chunks, possibly inside the string of a JSON object or
\* followed by prose
ExtractTexts ==
  {pre \o t \o post :
     pre  \in {"", "{\"s\":\""},
     t    \in ChunkTexts(MaxChunks),
     post \in {"", "\"}", " x"}}

InitExtract ==
  /\ EngineIdle
  /\ SideIdle
  /\ arg \in ExtractTexts
  /\ ret = Null

\* keywords.js: extractJSONFromString(text) is called
ApplyExtractKeywords ==
  /\ ret = Null
  /\ ret' = [fn |-> "keywords", out |-> ExtractKeywords(arg)]
  /\ UNCHANGED <<engineVars, arg, sideVars>>

\* experience.js: extractJSONFromString(text) is called
ApplyExtractExperience ==
  /\ ret = Null
  /\ ret' = [fn |-> "experience", out |-> ExtractExperience(arg)]
  /\ UNCHANGED <<engineVars, arg, sideVars>>

NextExtract == ApplyExtractKeywords \/ ApplyExtractExperience

SpecExtract == InitExtract /\ [][NextExtract]_vars

\* ----- Properties of the extractors --------------------------------------

IsValidJson(text) == JsonParse(text).ok

RECURSIVE BlockInteriors(_, _)
\* The interiors of the fenced json blocks of text from position p on, in
\* order: a block runs from an opening tag to the next fence
BlockInteriors(text, p) ==
  LET open  == IndexOfFrom(text, JSON_FENCE, p)
      from  == open + Len(JSON_FENCE)
      close == IndexOfFrom(text, FENCE, from)
  IN  IF open = 0 \/ close = 0 THEN << >>
      ELSE <<SubSeq(text, from, close - 1)>>
             \o BlockInteriors(text, close + Len(FENCE))

SomeBlockInvalid(text) ==
  \E k \in 1..Len(BlockInteriors(text, 1)) : ~IsValidJson(BlockInteriors(text, 1)[k])

FirstBlockInvalid(text) ==
  /\ Len(BlockInteriors(text, 1)) > 0
  /\ ~IsValidJson(BlockInteriors(text, 1)[1])

\* The extractor threw the invalid-block error after the block strategy alone
FailedOnBlock(out) ==
  /\ ~out.ok
  /\ out.error = AppError("VALIDATION_ERROR", INVALID_BLOCK_MESSAGE, 400)
  /\ out.tried = <<"block">>

\* C9 as the specification words it: a text holding any fenced json block
\* with an invalid interior makes the extractor fail with the invalid-block
\* error
C9_AsClaimed ==
  (ret # Null /\ SomeBlockInvalid(arg)) => FailedOnBlock(ret.out)

\* C9: when the first fenced json block of the text has an interior that is
\* not valid JSON, both extractors fail with the invalid-block error and the
\* block strategy is the only one they tried, whatever the whole text or a
\* brace span of it would parse to
C9_FirstBlockDecides ==
  (ret # Null /\ FirstBlockInvalid(arg)) => FailedOnBlock(ret.out)

\* The first block is invalid, the whole text is valid JSON, and the
\* three-strategy extractor has run
C9_Witness ==
  /\ ret # Null
  /\ ret.fn = "keywords"
  /\ FirstBlockInvalid(arg)
  /\ IsValidJson(arg)
  /\ MatchBraces(arg).found /\ IsValidJson(MatchBraces(arg).text)

\* ----- auditLog.js: sanitizeData -----------------------------------------

\* sanitizeData(data, maxDepth = 3, currentDepth = 0)
DefaultMaxDepth == 3

sensitiveKeys ==
  {"password", "token", "apiKey", "api_key", "authorization", "x-api-key",
   "secret", "key"}

\* The test of a key with its lower-casing left out
IsSensitiveKeyCaseKept(key) ==
  \E sensitive \in sensitiveKeys : Includes(key, sensitive)

\* sensitiveKeys.some(sensitive => lowerKey.includes(sensitive))
IsSensitiveKey(key) ==
  LET lowerKey == ToLowerCase(key) IN
  \E sensitive \in sensitiveKeys : Includes(lowerKey, sensitive)

RECURSIVE SanitizeData(_, _, _), SanitizeItems(_, _, _), SanitizeEntry(_, _, _, _),
          SanitizeEntries(_, _, _, _, _, _)

\* data.slice(0, 10).map(item => sanitizeData(item, maxDepth, currentDepth + 1))
SanitizeItems(items, maxDepth, currentDepth) ==
  [j \in 1..(IF Len(items) < 10 THEN Len(items) ELSE 10) |->
     SanitizeData(items[j], maxDepth, currentDepth + 1)]

\* The loop body altered: the size test comes before the test of the key
SanitizeEntrySizeFirst(state, entry, maxDepth, currentDepth) ==
  IF state.broken THEN state
  ELSE IF Len(state.sanitized) >= 50
       THEN [sanitized |-> SetEntry(state.sanitized, "...",
                                    Str("[Too many keys, truncated]")),
             broken |-> TRUE]
  ELSE IF IsSensitiveKey(entry.k)
       THEN [sanitized |-> SetEntry(state.sanitized, entry.k, Str("[REDACTED]")),
             broken |-> FALSE]
  ELSE [sanitized |-> SetEntry(state.sanitized, entry.k,
                               SanitizeData(entry.v, maxDepth, currentDepth + 1)),
        broken |-> FALSE]

\* One iteration of the loop over Object.entries(data): state.sanitized is
\* the object written so far, state.broken tells that the loop has left by
\* its break
SanitizeEntry(state, entry, maxDepth, currentDepth) ==
  IF state.broken THEN state
  ELSE IF IsSensitiveKey(entry.k)
       THEN [sanitized |-> SetEntry(state.sanitized, entry.k, Str("[REDACTED]")),
             broken |-> FALSE]
  ELSE IF Len(state.sanitized) >= 50
       THEN [sanitized |-> SetEntry(state.sanitized, "...",
                                    Str("[Too many keys, truncated]")),
             broken |-> TRUE]
  ELSE [sanitized |-> SetEntry(state.sanitized, entry.k,
                               SanitizeData(entry.v, maxDepth, currentDepth + 1)),
        broken |-> FALSE]

\* The iterations of the loop for the entries first..last, in order, from
\* state on, up to the break; the range is split in halves so that the
\* evaluation of a long loop stays shallow
SanitizeEntries(entries, first, last, state, maxDepth, currentDepth) ==
  IF first > last THEN state
  ELSE IF first = last
       THEN SanitizeEntry(state, entries[first], maxDepth, currentDepth)
  ELSE LET middle == (first + last) \div 2
           half   == SanitizeEntries(entries, first, middle, state, maxDepth,
                                     currentDepth)
       IN  IF half.broken THEN half
           ELSE SanitizeEntries(entries, middle + 1, last, half, maxDepth,
                                currentDepth)

\* SanitizeData altered: a long string gets the suffix without being cut
SanitizeDataAppending(data, maxDepth, currentDepth) ==
  IF currentDepth >= maxDepth THEN Str("[Max Depth Reached]")
  ELSE IF data.t \in {"null", "undef"} THEN Null
  ELSE IF data.t = "str"
       THEN IF Len(data.s) > 1000
            THEN Str(data.s \o "... [truncated]")
            ELSE data
  ELSE IF data.t \in {"num", "bool"} THEN data
  ELSE IF data.t = "arr" THEN Arr(SanitizeItems(data.a, maxDepth, currentDepth))
  ELSE IF data.t = "obj"
       THEN Obj(SanitizeEntries(data.e, 1, Len(data.e),
                                [sanitized |-> << >>, broken |-> FALSE],
                                maxDepth, currentDepth).sanitized)
  ELSE Str(JsString(data))

\* SanitizeData altered: the depth test lets one more level through
SanitizeDataOneDeeper(data, maxDepth, currentDepth) ==
  IF currentDepth > maxDepth THEN Str("[Max Depth Reached]")
  ELSE IF data.t \in {"null", "undef"} THEN Null
  ELSE IF data.t = "str"
       THEN IF Len(data.s) > 1000
            THEN Str(SubSeq(data.s, 1, 1000) \o "... [truncated]")
            ELSE data
  ELSE IF data.t \in {"num", "bool"} THEN data
  ELSE IF data.t = "arr" THEN Arr(SanitizeItems(data.a, maxDepth, currentDepth))
  ELSE IF data.t = "obj"
       THEN Obj(SanitizeEntries(data.e, 1, Len(data.e),
                                [sanitized |-> << >>, broken |-> FALSE],
                                maxDepth, currentDepth).sanitized)
  ELSE Str(JsString(data))

\* auditLog.js: sanitizeData(data, maxDepth = 3, currentDepth = 0)
SanitizeData(data, maxDepth, currentDepth) ==
  IF currentDepth >= maxDepth THEN Str("[Max Depth Reached]")
  ELSE IF data.t \in {"null", "undef"} THEN Null
  ELSE IF data.t = "str"
       THEN IF Len(data.s) > 1000
            THEN Str(SubSeq(data.s, 1, 1000) \o "... [truncated]")
            ELSE data
  ELSE IF data.t \in {"num", "bool"} THEN data
  ELSE IF data.t = "arr" THEN Arr(SanitizeItems(data.a, maxDepth, currentDepth))
  ELSE IF data.t = "obj"
       THEN Obj(SanitizeEntries(data.e, 1, Len(data.e),
                                [sanitized |-> << >>, broken |-> FALSE],
                                maxDepth, currentDepth).sanitized)
  ELSE Str(JsString(data))

\* ----- The values sanitizeData is applied to ------------------------------

\* Largest number of containers wrapped around a seed value
MaxNest == 3

SECRET == Str("hunter2")

PasswordKeys == {"password", "PassWord"}

RECURSIVE Repeat(_, _)
Repeat(text, n) ==
  IF n = 0 THEN ""
  ELSE IF n % 2 = 1 THEN Repeat(text, n - 1) \o text
  ELSE LET half == Repeat(text, n \div 2) IN half \o half

\* n entries with harmless keys k1 .. kn
Filler(n) == [j \in 1..n |-> Entry("k" \o NatToString(j), Num(j))]

Pad(n) == [j \in 1..n |-> Num(0)]

SanitizeSeeds ==
  {Null, Undef, Num(1), Bool(TRUE), Str("hi"), Str(Repeat("a", 1001))}
  \cup {Obj(<<Entry(k, SECRET)>>) : k \in PasswordKeys}
  \cup {Obj(<<Entry("note", Str("hi")), Entry(k, SECRET), Entry("token", Str("abc"))>>) :
          k \in PasswordKeys}
  \cup {Obj(Filler(n) \o <<Entry(k, SECRET)>>) : n \in {49, 50, 51}, k \in PasswordKeys}
  \cup {Obj(Filler(49) \o <<Entry("token", Str("abc")), Entry(k, SECRET),
                            Entry("z", Num(0)), Entry("secret", SECRET)>>) :
          k \in PasswordKeys}
  \cup {Obj(<<Entry("Authorization", Str("Bearer abc")), Entry("X-API-Key", SECRET),
              Entry("api_key", SECRET), Entry("monkey", SECRET),
              Entry("note", Str("hi"))>>)}

\* The containers a value can sit in: a mapping entry, a sequence element
\* (alone, tenth or eleventh), the entry of a sensitive key
Wrappings(v) ==
  {Obj(<<Entry("nested", v)>>), Arr(<<v>>), Arr(Pad(9) \o <<v>>),
   Arr(Pad(10) \o <<v>>), Obj(<<Entry("apiKey", v)>>)}

RECURSIVE Nested(_)
Nested(n) ==
  IF n = 0 THEN SanitizeSeeds
  ELSE SanitizeSeeds \cup UNION {Wrappings(v) : v \in Nested(n - 1)}

SanitizeInputs == Nested(MaxNest)

InitSanitize ==
  /\ EngineIdle
  /\ SideIdle
  /\ arg \in SanitizeInputs
  /\ ret = Null

\* auditLog.js: sanitizeData(data) is called with its default depths
ApplySanitizeData ==
  /\ ret = Null
  /\ ret' = [fn |-> "sanitizeData", out |-> SanitizeData(arg, DefaultMaxDepth, 0)]
  /\ UNCHANGED <<engineVars, arg, sideVars>>

NextSanitize == ApplySanitizeData

SpecSanitize == InitSanitize /\ [][NextSanitize]_vars

\* ----- Properties of sanitizeData ----------------------------------------

REDACTED == Str("[REDACTED]")

IsPasswordKey(key) == ToLowerCase(key) = "password"

\* The key names something secret: its lower-case form contains one of the
\* sensitive words
NamesSecret(key) ==
  \E word \in {"password", "token", "api_key", "authorization", "x-api-key",
               "secret", "key"} :
    Includes(ToLowerCase(key), word)

HasKey(entries, key) == KeyIndex(entries, key) # 0

ValueOf(entries, key) == entries[KeyIndex(entries, key)].v

\* The position where a mapping is cut: its first entry after the fiftieth
\* whose key is not sensitive; past the end when there is none
CutIndex(entries) ==
  IF \E n \in 51..Len(entries) : ~NamesSecret(entries[n].k)
  THEN CHOOSE n \in 51..Len(entries) :
         /\ ~NamesSecret(entries[n].k)
         /\ \A m \in 51..(n - 1) : NamesSecret(entries[m].k)
  ELSE Len(entries) + 1

RECURSIVE HoldsPassword(_, _)
\* The value v, found at depth d, holds a password entry within the depth
\* cap that is not under another sensitive key
HoldsPassword(v, d) ==
  /\ d < 3
  /\ CASE v.t = "obj" ->
            \E n \in 1..Len(v.e) :
              \/ IsPasswordKey(v.e[n].k)
              \/ ~NamesSecret(v.e[n].k) /\ HoldsPassword(v.e[n].v, d + 1)
       [] v.t = "arr" -> \E j \in 1..Len(v.a) : HoldsPassword(v.a[j], d + 1)
       [] OTHER -> FALSE

RECURSIVE EveryPasswordMapped(_, _, _)
\* Every password entry of inp within the depth cap is in out, at the same
\* position, with the redaction marker as its value
EveryPasswordMapped(inp, out, d) ==
  \/ d >= 3
  \/ CASE inp.t = "obj" ->
            /\ out.t = "obj"
            /\ \A n \in 1..Len(inp.e) :
                 LET key == inp.e[n].k
                 IN  IF IsPasswordKey(key)
                     THEN HasKey(out.e, key) /\ ValueOf(out.e, key) = REDACTED
                     ELSE IF NamesSecret(key) THEN TRUE
                     ELSE IF HasKey(out.e, key)
                          THEN EveryPasswordMapped(inp.e[n].v, ValueOf(out.e, key), d + 1)
                          ELSE ~HoldsPassword(inp.e[n].v, d + 1)
       [] inp.t = "arr" ->
            /\ out.t = "arr"
            /\ \A j \in 1..Len(inp.a) :
                 IF j <= Len(out.a)
                 THEN EveryPasswordMapped(inp.a[j], out.a[j], d + 1)
                 ELSE ~HoldsPassword(inp.a[j], d + 1)
       [] OTHER -> TRUE

RECURSIVE RetainedPasswordsMapped(_, _, _)
\* Every password entry of inp within the depth cap that the caps retain
\* (among the first ten elements of its sequences, before the cut of its
\* mapping) is in out with the redaction marker; the password entries the
\* caps drop are absent from out
RetainedPasswordsMapped(inp, out, d) ==
  \/ d >= 3
  \/ CASE inp.t = "obj" ->
            /\ out.t = "obj"
            /\ \A n \in 1..Len(inp.e) :
                 LET key == inp.e[n].k
                 IN  IF n < CutIndex(inp.e)
                     THEN /\ HasKey(out.e, key)
                          /\ IF IsPasswordKey(key) THEN ValueOf(out.e, key) = REDACTED
                             ELSE IF NamesSecret(key) THEN TRUE
                             ELSE RetainedPasswordsMapped(inp.e[n].v,
                                    ValueOf(out.e, key), d + 1)
                     ELSE IsPasswordKey(key) => ~HasKey(out.e, key)
       [] inp.t = "arr" ->
            /\ out.t = "arr"
            /\ Len(out.a) = (IF Len(inp.a) < 10 THEN Len(inp.a) ELSE 10)
            /\ \A j \in 1..Len(out.a) :
                 RetainedPasswordsMapped(inp.a[j], out.a[j], d + 1)
       [] OTHER -> TRUE

RECURSIVE NoPasswordCopied(_)
\* No entry of the value, at any position, has a password key and a value
\* other than the redaction marker
NoPasswordCopied(v) ==
  CASE v.t = "obj" ->
         \A n \in 1..Len(v.e) :
           IF IsPasswordKey(v.e[n].k) THEN v.e[n].v = REDACTED
           ELSE NoPasswordCopied(v.e[n].v)
    [] v.t = "arr" -> \A j \in 1..Len(v.a) : NoPasswordCopied(v.a[j])
    [] OTHER -> TRUE

SpecLive == Init /\ [][Next]_vars /\ WF_vars(Next)

RECURSIVE Doubled(_, _)
\* base doubled k - 1 times
Doubled(base, k) == IF k <= 1 THEN base ELSE 2 * Doubled(base, k - 1)

BackoffBase == IF provider = "gemini" THEN 1000 ELSE 500

\* C18: every sleep of the log comes before a retry attempt k >= 1 and lasts
\* base * 2^(k-1) ms (base 1000 for Gemini, 500 for OpenAI); a call of
\* attempt k >= 1 directly follows the sleep of that key and attempt, and a
\* call of attempt 0 follows no sleep, on a fallback key as on the first.
C18_BackoffDelays ==
  \A n \in 1..Len(log) :
    /\ log[n].ev = "sleep" =>
         /\ log[n].attempt >= 1
         /\ log[n].ms = Doubled(BackoffBase, log[n].attempt)
    /\ (log[n].ev = "call" /\ log[n].attempt >= 1) =>
         /\ n > 1
         /\ log[n - 1].ev = "sleep"
         /\ log[n - 1].key = log[n].key
         /\ log[n - 1].attempt = log[n].attempt
    /\ (log[n].ev = "call" /\ log[n].attempt = 0 /\ n > 1) =>
         log[n - 1].ev # "sleep"

\* C18 witness: the second retry on a fallback key has left after a sleep of
\* 2000 ms, and the first attempt on that key was made without a sleep
C18_Witness ==
  /\ provider = "gemini"
  /\ pc = "calling"
  /\ i = 1
  /\ retryAttempt = 2
  /\ log[Len(log) - 1] = SleepEvent(1, 2, 2000)
  /\ \E n \in 2..Len(log) : log[n] = CallEvent(1, 0) /\ log[n - 1].ev = "fail"

\* C19: every invocation ends, with one outcome: a response when it returned,
\* an AppError when it threw; once it has ended nothing changes any more.
C19_Terminates ==
  /\ <>Done
  /\ [](Done => /\ outcome # Null
                /\ (pc = "returned") = (outcome.class = "Response")
                /\ (pc = "thrown") = (outcome.class = "AppError"))
  /\ [][Done => UNCHANGED vars]_vars

\* C19 witness: an invocation has returned the response of the third key
\* after every attempt on the first two keys failed
C19_Witness ==
  /\ pc = "returned"
  /\ provider = "gemini"
  /\ maxRetries = 2
  /\ outcome = [class |-> "Response", key |-> 2]
  /\ calls = 7

\* The error of the last failed attempt of the log
LastFailure == Events("fail")[Len(Events("fail"))].error

\* The failure each client makes of one upstream error
ExpectedFailure(error) ==
  LET overloaded == AppError("AI_SERVICE_ERROR",
        "AI service is temporarily overloaded. Please try again in a few moments.", 503)
  IN  IF error = Overloaded503 THEN overloaded
      ELSE IF error = RateLimited429 THEN AppError("AI_SERVICE_ERROR", "Rate limit", 502)
      ELSE IF error = Unauthorized401 THEN AppError("AI_SERVICE_ERROR", "Invalid key", 502)
      ELSE AppError("AI_SERVICE_ERROR", "Timeout", 502)

\* C20: when the invocation throws after upstream calls, the last event of
\* the log is a failed attempt and the AppError thrown is the one made of
\* that attempt's error alone: its message and status are those of the last
\* error, whatever the earlier attempts failed with.
C20_LastFailureDecides ==
  (pc = "thrown" /\ calls > 0) =>
    /\ log[Len(log)].ev = "fail"
    /\ log[Len(log)].key = PoolSize - 1
    /\ lastError = LastFailure
    /\ outcome = ExpectedFailure(LastFailure)

\* C20 witness: the first key failed with the 503 error throughout, the last
\* attempt on the last key with the 401 error, and the failure thrown carries
\* the 401 message
C20_Witness ==
  /\ pc = "thrown"
  /\ provider = "gemini"
  /\ PoolSize = 2
  /\ \E n \in 1..Len(log) : log[n] = FailEvent(0, Overloaded503)
  /\ LastFailure = Unauthorized401
  /\ outcome = AppError("AI_SERVICE_ERROR", "Invalid key", 502)

\* ------------------------------------------------------------------------
\* slackNotifier.js: notifySlack
\* ------------------------------------------------------------------------

\* The errorData object handed to notifySlack
ErrorData(service, errorCode, errorMessage, statusCode, userId, userEmail, path) ==
  [service |-> service, errorCode |-> errorCode, errorMessage |-> errorMessage,
   statusCode |-> statusCode, userId |-> userId, userEmail |-> userEmail,
   path |-> path, message |-> errorMessage]

\* errorData.statusCode >= 500 || errorData.errorCode === 'DATABASE_ERROR' || ...
requiresAttention(errorData) ==
  \/ errorData.statusCode.t = "num" /\ errorData.statusCode.n >= 500
  \/ errorData.errorCode = Str("DATABASE_ERROR")
  \/ errorData.errorCode = Str("DATABASE_CONNECTION_ERROR")
  \/ errorData.errorCode = Str("CONFIGURATION_ERROR")
  \/ errorData.errorCode = Str("AI_SERVICE_ERROR")
  \/ errorData.errorCode = Str("SERVICE_UNAVAILABLE")

\* message.length > limit ? message.substring(0, limit - 3) + '...' : message
Shorten(message, limit) ==
  IF message.t = "str" /\ Len(message.s) > limit
  THEN Str(SubSeq(message.s, 1, limit - 3) \o "...")
  ELSE message

\* value.substring(0, n): a TypeError on anything but a string
Substring(value, n) ==
  IF value.t # "str" THEN [threw |-> TRUE, v |-> Undef]
  ELSE [threw |-> FALSE,
        v |-> Str(SubSeq(value.s, 1, IF Len(value.s) < n THEN Len(value.s) ELSE n))]

Prepared(service, errorCode, shortMessage, userInfo, path, statusCode) ==
  [threw |-> FALSE,
   payload |-> [service |-> service, errorCode |-> errorCode,
                shortMessage |-> shortMessage, userInfo |-> userInfo,
                path |-> path, statusCode |-> statusCode]]

PrepareThrew == [threw |-> TRUE, payload |-> Null]

\* The try block of the compact notifier up to the POST: the parts of the
\* one-line message
PrepareCompact(errorData) ==
  LET service      == OrElse(errorData.service, Str("UNKNOWN"))
      errorCode    == OrElse(errorData.errorCode,
                             Str("HTTP_" \o JsString(errorData.statusCode)))
      message      == OrElse(errorData.errorMessage,
                             OrElse(errorData.message, Str("Unknown error")))
      shortMessage == Shorten(message, 80)
      userId       == Substring(errorData.userId, 12)
      path         == Substring(OrElse(errorData.path, Str("N/A")), 30)
  IN  IF ~Truthy(errorData.userEmail) /\ Truthy(errorData.userId) /\ userId.threw
      THEN PrepareThrew
      ELSE IF path.threw THEN PrepareThrew
      ELSE Prepared(service, errorCode, shortMessage,
             IF Truthy(errorData.userEmail) THEN errorData.userEmail
             ELSE IF Truthy(errorData.userId) THEN userId.v ELSE Str("N/A"),
             path.v, Undef)

\* The try block of the friendly notifier up to the POST
PrepareFriendly(errorData) ==
  LET service      == OrElse(errorData.service, Str("Unknown Service"))
      errorCode    == OrElse(errorData.errorCode,
                             Str("Error " \o JsString(errorData.statusCode)))
      message      == OrElse(errorData.errorMessage,
                             OrElse(errorData.message, Str("An error occurred")))
      shortMessage == Shorten(message, 100)
      userId       == Substring(errorData.userId, 12)
  IN  IF ~Truthy(errorData.userEmail) /\ Truthy(errorData.userId) /\ userId.threw
      THEN PrepareThrew
      ELSE Prepared(service, errorCode, shortMessage,
             IF Truthy(errorData.userEmail) THEN errorData.userEmail
             ELSE IF Truthy(errorData.userId)
                  THEN Str("User ID: " \o userId.v.s \o "...")
                  ELSE Str("Not yet logged in"),
             OrElse(errorData.path, Str("Unknown endpoint")), errorData.statusCode)

Prepare(errorData) ==
  IF notifier = "compact" THEN PrepareCompact(errorData) ELSE PrepareFriendly(errorData)

SLACK_NOT_CONFIGURED == "[SLACK] Webhook URL not configured, skipping notification"

SLACK_SEND_FAILED == "[SLACK] Failed to send notification:"

SLACK_PREPARE_FAILED == "[SLACK] Error preparing notification:"

\* notifySlack(errorData) from its call to the return of the async function:
\* axios.post is started and not awaited
NotifySlack ==
  /\ npc = "idle"
  /\ settled' = "resolved"
  /\ IF ~requiresAttention(arg)
     THEN npc' = "done" /\ UNCHANGED <<posts, console>>
     ELSE IF ~Truthy(SLACK_WEBHOOK_URL)
          THEN /\ npc' = "done"
               /\ console' = Append(console, SLACK_NOT_CONFIGURED)
               /\ UNCHANGED posts
     ELSE IF Prepare(arg).threw
          THEN /\ npc' = "done"
               /\ console' = Append(console, SLACK_PREPARE_FAILED)
               /\ UNCHANGED posts
     ELSE /\ npc' = "posting"
          /\ posts' = Append(posts, [url |-> SLACK_WEBHOOK_URL,
                                     message |-> Prepare(arg).payload])
          /\ UNCHANGED console
  /\ UNCHANGED <<engineVars, httpVars, arg, ret, SLACK_WEBHOOK_URL, notifier, unhandled>>

\* The POST is answered
PostOk ==
  /\ npc = "posting"
  /\ npc' = "done"
  /\ UNCHANGED <<engineVars, httpVars, arg, ret, SLACK_WEBHOOK_URL, notifier, settled, posts,
                 processVars>>

\* PostFail altered: the promise of axios.post has no catch handler
PostFailUncaught(reason) ==
  /\ npc = "posting"
  /\ npc' = "done"
  /\ unhandled' = unhandled + 1
  /\ UNCHANGED <<engineVars, httpVars, arg, ret, SLACK_WEBHOOK_URL, notifier, settled, posts,
                 console>>

\* The POST fails (network error, error status, 5 s timeout): the .catch
\* handler logs it
PostFail(reason) ==
  /\ npc = "posting"
  /\ npc' = "done"
  /\ console' = Append(console, SLACK_SEND_FAILED \o " " \o reason)
  /\ UNCHANGED <<engineVars, httpVars, arg, ret, SLACK_WEBHOOK_URL, notifier, settled, posts,
                 unhandled>>

\* ----- The calls of notifySlack explored ----------------------------------

LONG_MESSAGE == Repeat("m", 101)

\* Error code and status of the outcomes the backend produces: the pairs of
\* ERROR_STATUS_MAP, the 429 and 503 of the AI clients, the HTTP_<status>
\* codes of the audit middleware
NotifiedOutcomes ==
  {<<Null, 200>>, <<Str("VALIDATION_ERROR"), 400>>, <<Str("INVALID_API_KEY"), 401>>,
   <<Str("HTTP_404"), 404>>, <<Str("RATE_LIMIT_EXCEEDED"), 429>>,
   <<Str("AI_SERVICE_ERROR"), 429>>, <<Str("AI_SERVICE_ERROR"), 502>>,
   <<Str("AI_SERVICE_ERROR"), 503>>, <<Str("DATABASE_ERROR"), 500>>,
   <<Str("DATABASE_CONNECTION_ERROR"), 503>>, <<Str("CONFIGURATION_ERROR"), 500>>,
   <<Str("SERVICE_UNAVAILABLE"), 503>>, <<Str("INTERNAL_SERVER_ERROR"), 500>>,
   <<Str("HTTP_500"), 500>>}

ErrorDataInputs ==
  {ErrorData(Str("CHAT"), outcome_[1], errorMessage, Num(outcome_[2]), userId,
             userEmail, path) :
     outcome_     \in NotifiedOutcomes,
     errorMessage \in {Null, Str("Not found"), Str(LONG_MESSAGE)},
     userId       \in {Null, Str("clx123abc456def789"), Num(42)},
     userEmail    \in {Undef, Str("a@b.c")},
     path         \in {Undef, Str("/api/chat"), Num(1)}}

InitNotify ==
  /\ EngineIdle
  /\ ProcessQuiet
  /\ HttpIdle
  /\ ret = Null
  /\ arg \in ErrorDataInputs
  /\ SLACK_WEBHOOK_URL \in {Undef, Str("https://hooks.slack.com/services/T/B/X")}
  /\ notifier \in {"compact", "friendly"}
  /\ npc = "idle"
  /\ settled = "pending"
  /\ posts = << >>

NextNotify ==
  \/ NotifySlack
  \/ PostOk
  \/ \E reason \in {"network", "timeout"} : PostFail(reason)

SpecNotify == InitNotify /\ [][NextNotify]_vars

\* ----- Properties of notifySlack -----------------------------------------

\* C13 as the specification words it: for an outcome with a status in
\* 400..499, whatever its error code, nothing is posted to the channel
C13_AsClaimed ==
  (arg.statusCode.n \in 400..499) => posts = << >>

\* C17: notifySlack never rejects and leaves nothing uncaught; without a
\* webhook URL it returns without a POST; it starts at most one POST per
\* call, and a POST that failed is followed by its log line and by no
\* second POST.
C17_DispatchProblemsSwallowed ==
  /\ settled # "rejected"
  /\ unhandled = 0
  /\ Len(posts) <= 1
  /\ ~Truthy(SLACK_WEBHOOK_URL) => posts = << >>
  /\ npc # "idle" => settled = "resolved"
  /\ \A n \in 1..Len(console) :
       console[n] \in {SLACK_SEND_FAILED \o " network", SLACK_SEND_FAILED \o " timeout"}
         => npc = "done" /\ Len(posts) = 1 /\ Len(console) = 1

\* C17 witnesses: a POST timed out and was logged after notifySlack had
\* resolved
C17_Witness ==
  /\ npc = "done"
  /\ settled = "resolved"
  /\ Len(posts) = 1
  /\ console = <<SLACK_SEND_FAILED \o " timeout">>

\* ------------------------------------------------------------------------
\* errors.js: error classes, normalizeError, the standardized response
\* ------------------------------------------------------------------------

\* errors.js ERROR_STATUS_MAP[errorCode] || 500
StatusOfCode(errorCode) ==
  CASE errorCode \in UNAUTHORIZED_CODES -> 401
    [] errorCode \in {"FORBIDDEN", "API_KEY_INACTIVE", "USER_DELETED",
                      "USER_NOT_VERIFIED"} -> 403
    [] errorCode \in {"VALIDATION_ERROR", "MISSING_FIELD", "INVALID_FIELD",
                      "INVALID_FILE_TYPE", "INVALID_JSON", "INVALID_FORMAT"} -> 400
    [] errorCode = "FILE_TOO_LARGE" -> 413
    [] errorCode \in {"NOT_FOUND", "RESOURCE_NOT_FOUND", "RECORD_NOT_FOUND"} -> 404
    [] errorCode \in {"DUPLICATE_ENTRY", "ALREADY_EXISTS"} -> 409
    [] errorCode \in {"QUOTA_EXCEEDED", "RATE_LIMIT_EXCEEDED", "AI_QUOTA_EXCEEDED"} -> 429
    [] errorCode \in {"EXTERNAL_SERVICE_ERROR", "AI_SERVICE_ERROR",
                      "AI_INVALID_RESPONSE"} -> 502
    [] errorCode \in {"DATABASE_CONNECTION_ERROR", "SERVICE_UNAVAILABLE"} -> 503
    [] errorCode = "AI_TIMEOUT" -> 504
    [] OTHER -> 500

\* new AppError(errorCode, message, statusCode, details): a falsy statusCode
\* is replaced by the status of the code
AppErrorWith(errorCode, message, statusCode, details) ==
  [class |-> "AppError", errorCode |-> errorCode, message |-> message,
   statusCode |-> IF statusCode = 0 THEN StatusOfCode(errorCode) ELSE statusCode,
   details |-> details]

DatabaseError(message, details) == AppErrorWith("DATABASE_ERROR", message, 0, details)

NotFoundError(message, details) == AppErrorWith("NOT_FOUND", message, 0, details)

AuthenticationError(message) == AppErrorWith("AUTH_ERROR", message, 0, Null)

ValidationErrorWith(message, details) ==
  AppErrorWith("VALIDATION_ERROR", message, 0, details)

\* An error that is no AppError: its class name, code and message
JsError(name, code, message) ==
  [class |-> "Error", name |-> name, code |-> code, message |-> message]

StartsWith(s, prefix) ==
  Len(prefix) <= Len(s) /\ SubSeq(s, 1, Len(prefix)) = prefix

\* A details object; its content is not looked at
SomeDetails == Obj(<<Entry("code", Str("..."))>>)

CONNECTION_MESSAGE == "Database connection error. Please try again in a moment."

\* errors.js handlePrismaError
handlePrismaError(error) ==
  CASE error.code = Str("P2002") ->
         AppErrorWith("DUPLICATE_ENTRY", "A record with this information already exists",
                      409, SomeDetails)
    [] error.code = Str("P2025") ->
         NotFoundError("The requested record could not be found", SomeDetails)
    [] error.code = Str("P2003") ->
         ValidationErrorWith("Invalid reference. The related record does not exist.",
                             SomeDetails)
    [] error.code = Str("P2014") ->
         ValidationErrorWith("Required relation is missing", SomeDetails)
    [] OTHER -> DatabaseError("Database operation failed", SomeDetails)

\* normalizeError altered: an AppError is not recognised and is wrapped as an
\* internal server error like any unknown error
normalizeErrorRewrapping(error) ==
  IF error.class = "AppError"
  THEN AppErrorWith("INTERNAL_SERVER_ERROR", error.message, 500, Null)
  ELSE IF error.name = "PrismaClientKnownRequestError" THEN handlePrismaError(error)
  ELSE IF error.name \in {"PrismaClientInitializationError",
                          "PrismaClientUnknownRequestError"}
       THEN DatabaseError(CONNECTION_MESSAGE, SomeDetails)
  ELSE IF /\ Truthy(error.code)
          /\ \/ StartsWith(error.code.s, "P1")
             \/ error.code.s \in {"ECONNREFUSED", "ETIMEDOUT", "ENOTFOUND"}
       THEN DatabaseError(CONNECTION_MESSAGE, SomeDetails)
  ELSE IF error.name = "SyntaxError" /\ Includes(JsString(error.message), "JSON")
       THEN ValidationErrorWith("Invalid JSON format", SomeDetails)
  ELSE IF error.name \in {"ValidationError", "ValidatorError"}
       THEN ValidationErrorWith(JsString(OrElse(error.message, Str("Validation failed"))),
                                Null)
  ELSE IF error.code = Str("LIMIT_FILE_SIZE")
       THEN AppErrorWith("FILE_TOO_LARGE", "File too large. Maximum size is 5MB.", 413, Null)
  ELSE IF /\ Truthy(error.message)
          /\ \/ Includes(error.message.s, "Invalid API key")
             \/ error.message.s = "API key is required"
       THEN AuthenticationError(error.message.s)
  ELSE AppErrorWith("INTERNAL_SERVER_ERROR",
         JsString(OrElse(error.message, Str("An unexpected error occurred"))), 500, Null)

\* errors.js normalizeError, for errors whose code is absent or a string and
\* with NODE_ENV other than development
normalizeError(error) ==
  IF error.class = "AppError" THEN error
  ELSE IF error.name = "PrismaClientKnownRequestError" THEN handlePrismaError(error)
  ELSE IF error.name \in {"PrismaClientInitializationError",
                          "PrismaClientUnknownRequestError"}
       THEN DatabaseError(CONNECTION_MESSAGE, SomeDetails)
  ELSE IF /\ Truthy(error.code)
          /\ \/ StartsWith(error.code.s, "P1")
             \/ error.code.s \in {"ECONNREFUSED", "ETIMEDOUT", "ENOTFOUND"}
       THEN DatabaseError(CONNECTION_MESSAGE, SomeDetails)
  ELSE IF error.name = "SyntaxError" /\ Includes(JsString(error.message), "JSON")
       THEN ValidationErrorWith("Invalid JSON format", SomeDetails)
  ELSE IF error.name \in {"ValidationError", "ValidatorError"}
       THEN ValidationErrorWith(JsString(OrElse(error.message, Str("Validation failed"))),
                                Null)
  ELSE IF error.code = Str("LIMIT_FILE_SIZE")
       THEN AppErrorWith("FILE_TOO_LARGE", "File too large. Maximum size is 5MB.", 413, Null)
  ELSE IF /\ Truthy(error.message)
          /\ \/ Includes(error.message.s, "Invalid API key")
             \/ error.message.s = "API key is required"
       THEN AuthenticationError(error.message.s)
  ELSE AppErrorWith("INTERNAL_SERVER_ERROR",
         JsString(OrElse(error.message, Str("An unexpected error occurred"))), 500, Null)

UpperChar(c) ==
  IF \E k \in 1..26 : CharAt(LowerAlphabet, k) = c
  THEN CharAt(UpperAlphabet, CHOOSE k \in 1..26 : CharAt(LowerAlphabet, k) = c)
  ELSE c

RECURSIVE UpperFrom(_, _)
UpperFrom(s, k) ==
  IF k > Len(s) THEN "" ELSE UpperChar(CharAt(s, k)) \o UpperFrom(s, k + 1)

\* String.prototype.toUpperCase
ToUpperCase(s) == UpperFrom(s, 1)

RECURSIVE ErrorNameFrom(_, _)
\* getErrorName from character k on: the first letter of each word of the
\* code as it is, the others in lower case, the underscores as spaces
ErrorNameFrom(code, k) ==
  IF k > Len(code) THEN ""
  ELSE (IF CharAt(code, k) = "_" THEN " "
        ELSE IF k = 1 \/ CharAt(code, k - 1) = "_" THEN CharAt(code, k)
        ELSE LowerChar(CharAt(code, k)))
       \o ErrorNameFrom(code, k + 1)

\* AppError.getErrorName
getErrorName(errorCode) == ErrorNameFrom(errorCode, 1)

\* new Date().toISOString(): one instant stands for the clock
TIMESTAMP == Str("2025-01-01T00:00:00.000Z")

\* AppError.toJSON
toJSON(error) ==
  Obj(<<Entry("success", Bool(FALSE)),
        Entry("error", Str(getErrorName(error.errorCode))),
        Entry("errorCode", Str(error.errorCode)),
        Entry("message", Str(error.message))>>
      \o (IF "details" \in DOMAIN error /\ Truthy(error.details)
          THEN <<Entry("details", error.details)>> ELSE << >>)
      \o <<Entry("timestamp", TIMESTAMP)>>)

\* What res.status(statusCode).json(body) sends
Reply(statusCode, body) == [statusCode |-> statusCode, body |-> body]

\* errors.js sendErrorResponse(res, error)
sendErrorResponse(error) ==
  Reply(normalizeError(error).statusCode, toJSON(normalizeError(error)))

\* ------------------------------------------------------------------------
\* auditLog.js: what the middleware computes at the end of a response
\* ------------------------------------------------------------------------

\* value[key] of JavaScript: undefined where value has no such property
Property(value, key) ==
  IF value.t = "obj" /\ KeyIndex(value.e, key) # 0
  THEN value.e[KeyIndex(value.e, key)].v
  ELSE Undef

RECURSIVE JsonStringify(_)
RECURSIVE StringifyItems(_, _)
RECURSIVE StringifyEntries(_, _)

StringifyItems(items, k) ==
  IF k > Len(items) THEN ""
  ELSE (IF k > 1 THEN "," ELSE "")
       \o (IF items[k].t = "undef" THEN "null" ELSE JsonStringify(items[k]))
       \o StringifyItems(items, k + 1)

\* The properties from the k-th on; an undefined one is left out
StringifyEntries(entries, k) ==
  IF k > Len(entries) THEN ""
  ELSE IF entries[k].v.t = "undef" THEN StringifyEntries(entries, k + 1)
  ELSE "\"" \o entries[k].k \o "\":" \o JsonStringify(entries[k].v)
       \o (IF \E n \in (k + 1)..Len(entries) : entries[n].v.t # "undef"
           THEN "," ELSE "")
       \o StringifyEntries(entries, k + 1)

\* JSON.stringify of a value whose strings need no escaping and whose
\* numbers are naturals
JsonStringify(value) ==
  CASE value.t = "null" -> "null"
    [] value.t = "num"  -> NatToString(value.n)
    [] value.t = "bool" -> IF value.b THEN "true" ELSE "false"
    [] value.t = "str"  -> "\"" \o value.s \o "\""
    [] value.t = "arr"  -> "[" \o StringifyItems(value.a, 1) \o "]"
    [] value.t = "obj"  -> "{" \o StringifyEntries(value.e, 1) \o "}"

\* path.replace(/^\/api/, '')
WithoutApiPrefix(path) ==
  IF StartsWith(path, "/api") THEN SubSeq(path, 5, Len(path)) ELSE path

RECURSIVE SkipSlashes(_, _)
SkipSlashes(s, p) ==
  IF p <= Len(s) /\ CharAt(s, p) = "/" THEN SkipSlashes(s, p + 1) ELSE p

\* service.split('/').filter(p => p)[0], or "" when there is no such part
FirstPart(service) ==
  LET p == SkipSlashes(service, 1)
      q == IndexOfFrom(service, "/", p)
  IN  IF p > Len(service) THEN ""
      ELSE SubSeq(service, p, IF q = 0 THEN Len(service) ELSE q - 1)

\* auditLog.js extractServiceName
extractServiceName(path) ==
  LET firstPart == FirstPart(WithoutApiPrefix(path))
  IN  CASE firstPart = ""              -> "UNKNOWN"
        [] firstPart = "chat"          -> "CHAT"
        [] firstPart = "coverletter"   -> "COVER_LETTER"
        [] firstPart = "experience"    -> "EXPERIENCE"
        [] firstPart = "keywords"      -> "KEYWORDS"
        [] firstPart = "upload-resume" -> "UPLOAD_RESUME"
        [] firstPart = "hr-lookup"     -> "HR_LOOKUP"
        [] firstPart = "applied-jobs"  -> "APPLIED_JOBS"
        [] firstPart = "auth"          -> "AUTH"
        [] firstPart = "health"        -> "HEALTH"
        [] OTHER                       -> ToUpperCase(firstPart)

\* The header named key is replaced in the audit record
IsSensitiveHeader(key) ==
  LET lowerKey == ToLowerCase(key) IN
  \/ Includes(lowerKey, "api-key")
  \/ Includes(lowerKey, "authorization")
  \/ Includes(lowerKey, "token")

\* auditLog.js: sanitizedHeaders
SanitizeHeaders(headers) ==
  Obj([n \in 1..Len(headers.e) |->
         IF IsSensitiveHeader(headers.e[n].k)
         THEN Entry(headers.e[n].k, Str("[REDACTED]"))
         ELSE headers.e[n]])

\* auditLog.js: sanitizedResponseBody. JSON.parse is the only call of the
\* try block that throws.
SanitizeResponseBody(responseBody) ==
  IF ~Truthy(responseBody) THEN Null
  ELSE IF responseBody.t = "str"
       THEN IF JsonParse(responseBody.s).ok
            THEN SanitizeData(JsonParse(responseBody.s).v, DefaultMaxDepth, 0)
            ELSE Substring(responseBody, 500).v
  ELSE SanitizeData(responseBody, DefaultMaxDepth, 0)

\* typeof value === 'object' for a truthy value
IsObjectType(value) == value.t \in {"obj", "arr"}

\* The error code of the response body itself, or null
BodyErrorCode(sanitizedResponseBody) ==
  IF Truthy(sanitizedResponseBody) /\ IsObjectType(sanitizedResponseBody)
  THEN OrElse(Property(sanitizedResponseBody, "errorCode"),
              OrElse(Property(sanitizedResponseBody, "error_code"), Null))
  ELSE Null

\* AuditErrorCode altered: a response that names no error code is recorded
\* without one
AuditErrorCodeNoFallback(statusCode, sanitizedResponseBody) ==
  IF statusCode >= 400 THEN BodyErrorCode(sanitizedResponseBody) ELSE Null

\* auditLog.js: errorCode of the audit record
AuditErrorCode(statusCode, sanitizedResponseBody) ==
  IF statusCode >= 400
  THEN IF Truthy(BodyErrorCode(sanitizedResponseBody))
       THEN BodyErrorCode(sanitizedResponseBody)
       ELSE Str("HTTP_" \o NatToString(statusCode))
  ELSE Null

\* auditLog.js: errorMessage of the audit record
AuditErrorMessage(statusCode, sanitizedResponseBody) ==
  IF /\ statusCode >= 400
     /\ Truthy(sanitizedResponseBody)
     /\ IsObjectType(sanitizedResponseBody)
  THEN OrElse(Property(sanitizedResponseBody, "message"),
              OrElse(Property(sanitizedResponseBody, "error"), Null))
  ELSE Null

\* Date.now() - startTime: one duration stands for the clock
RESPONSE_TIME == Num(1)

\* req.get(name): the header, whatever the case of its name
Header(req, name) ==
  IF \E n \in 1..Len(req.headers.e) : ToLowerCase(req.headers.e[n].k) = name
  THEN req.headers.e[CHOOSE n \in 1..Len(req.headers.e) :
                       ToLowerCase(req.headers.e[n].k) = name].v
  ELSE Undef

\* auditLog.js: auditLogData, from the request, the user the authentication
\* attached, the status and the captured body
BuildAuditLogData(req, user, statusCode, responseBody) ==
  LET sanitizedResponseBody == SanitizeResponseBody(responseBody) IN
  [userId         |-> IF user = Null THEN Null ELSE OrElse(user.id, Null),
   service        |-> Str(extractServiceName(req.path)),
   method         |-> Str(req.method),
   path           |-> Str(req.path),
   statusCode     |-> Num(statusCode),
   errorCode      |-> AuditErrorCode(statusCode, sanitizedResponseBody),
   errorMessage   |-> AuditErrorMessage(statusCode, sanitizedResponseBody),
   requestBody    |-> IF Truthy(req.body)
                      THEN SanitizeData(req.body, DefaultMaxDepth, 0) ELSE Null,
   responseBody   |-> sanitizedResponseBody,
   requestHeaders |-> SanitizeHeaders(req.headers),
   responseTime   |-> RESPONSE_TIME,
   ipAddress      |-> OrElse(req.ip, OrElse(Header(req, "x-forwarded-for"), Null)),
   userAgent      |-> OrElse(Header(req, "user-agent"), Null)]

\* ------------------------------------------------------------------------
\* The HTTP pipeline: app.js, the routes, authenticateApiKey, the keywords
\* controller and the audit middleware around them
\* ------------------------------------------------------------------------

Request(method, path, headers, body) ==
  [method |-> method, path |-> path, headers |-> Obj(headers), body |-> body,
   ip |-> Str("::1")]

USER_AGENT == Entry("user-agent", Str("extension/1.0"))

\* express.json() leaves an empty object where a request has no body
NO_BODY == Obj(<< >>)

KEYWORDS_BODY ==
  Obj(<<Entry("jobDescription", Str("Backend engineer")),
        Entry("skills", Arr(<<Str("node")>>)),
        Entry("apiKey", SECRET)>>)

\* The keys presented; none has white space around it, so trim() keeps them
ApiKeysPresented == {"key-good", "key-orphan", "key-unverified"}

KeywordsRequest(key, body) ==
  Request("POST", "/api/keywords", <<Entry("x-api-key", Str(key)), USER_AGENT>>, body)

\* The requests received
Requests ==
  {Request("GET", "/health", <<USER_AGENT>>, NO_BODY),
   Request("GET", "/nowhere", <<USER_AGENT>>, NO_BODY),
   Request("POST", "/api/keywords", <<USER_AGENT>>, KEYWORDS_BODY),
   KeywordsRequest("key-good", NO_BODY)}
  \cup {KeywordsRequest(key, KEYWORDS_BODY) : key \in ApiKeysPresented}

ApiKeyRecord(user, isActive, deletedAt) ==
  [user |-> user, isActive |-> isActive, deletedAt |-> deletedAt]

User(id, deletedAt, verifiedByAdmin) ==
  [id |-> Str(id), deletedAt |-> deletedAt, verifiedByAdmin |-> verifiedByAdmin]

\* prisma.apiKey.findUnique({where: {key}, include: {user: true}}) on the
\* rows of the apiKey table
findUnique(key) ==
  CASE key = "key-good" -> ApiKeyRecord(User("user-1", Null, TRUE), TRUE, Null)
    [] key = "key-orphan" -> ApiKeyRecord(Null, TRUE, Null)
    [] key = "key-inactive" -> ApiKeyRecord(User("user-2", Null, TRUE), FALSE, Null)
    [] key = "key-unverified" -> ApiKeyRecord(User("user-3", Null, FALSE), TRUE, Null)
    [] OTHER -> Null

Failure(message) ==
  Obj(<<Entry("success", Bool(FALSE)), Entry("message", Str(message))>>)

FailureWithCode(errorCode, message) ==
  Obj(<<Entry("success", Bool(FALSE)), Entry("errorCode", Str(errorCode)),
        Entry("message", Str(message))>>)

\* auth.js authenticateApiKey: the reply to a key whose lookup returned
\* apiKeyRecord, or Null where the request passes
AuthReply(apiKeyRecord) ==
  IF apiKeyRecord = Null THEN Reply(401, Failure("Invalid API key"))
  ELSE IF apiKeyRecord.user = Null
       THEN Reply(500, FailureWithCode("DATA_ERROR",
                         "Invalid API key configuration. Please contact support."))
  ELSE IF ~apiKeyRecord.isActive THEN Reply(403, Failure("API key is inactive"))
  ELSE IF Truthy(apiKeyRecord.deletedAt) THEN Reply(403, Failure("API key is inactive"))
  ELSE IF Truthy(apiKeyRecord.user.deletedAt)
       THEN Reply(403, FailureWithCode("USER_DELETED",
              "Your account has been deleted. Please contact support for assistance."))
  ELSE IF ~apiKeyRecord.user.verifiedByAdmin
       THEN Reply(403, FailureWithCode("USER_NOT_VERIFIED",
              "Your account is pending verification. Please wait for admin approval before using the extension."))
  ELSE Null

\* Capture altered: every call of res.send or res.json overwrites the body
CaptureLast(st, body) ==
  [st EXCEPT !.responseBody = body, !.responseSent = TRUE]

\* auditLog.js: the overridden res.send and res.json keep the first body
Capture(st, body) ==
  IF ~st.responseSent
  THEN [st EXCEPT !.responseBody = body, !.responseSent = TRUE]
  ELSE st

\* One more turn of the event loop in the history of a request
Turn(st, events) == [st EXCEPT !.turns = Append(st.turns, events)]

\* res.status(statusCode).json(body): the overridden res.json, then the
\* res.send that Express's res.json calls with the JSON text
ResJson(st, statusCode, body) ==
  [Capture(Capture(st, body), Str(JsonStringify(body)))
     EXCEPT !.statusCode = statusCode,
            !.sent = Reply(statusCode, body),
            !.stage = "responded"]

\* Express's final handler for a request no route took: 404, written with
\* res.end
NotFoundPage(st) ==
  [st EXCEPT !.statusCode = 404,
             !.sent = Reply(404, Str("Cannot " \o st.req.method \o " " \o st.req.path)),
             !.stage = "responded"]

HEALTH_BODY ==
  Obj(<<Entry("status", Str("ok")), Entry("timestamp", TIMESTAMP),
        Entry("uptime", Num(1)), Entry("version", Str("1.0.0"))>>)

\* routes: the paths behind router.use(authenticateApiKey)
IsProtected(path) == StartsWith(path, "/api/") /\ path # "/api/health"

\* prisma.apiKey.findUnique rejects: the database cannot be reached
DATABASE_DOWN ==
  JsError("PrismaClientInitializationError", Undef, Str("Can't reach database server"))

AUTH_ERROR_LINE == "[AUTH] Authentication error:"

AUTH_RELATION_LINE == "[AUTH] API key found but user relation is missing"

AUTH_UPDATE_LINE == "[AUTH] Failed to update lastUsedAt for API key"

KEYWORDS_MISSING_LINE == "[KEYWORDS] Missing required fields:"

ERROR_LINE == "[ERROR]"

AUDIT_FAILED_LINE == "[AUDIT_LOG] Failed to create audit log entry:"

\* What generateContentWithFallback and extractJSONFromString leave the
\* keywords controller with: a result, or an error handed to next
HandlerResults ==
  {[ok |-> TRUE, value |-> Obj(<<Entry("keywords", Arr(<<Str("node")>>))>>)],
   [ok |-> FALSE, error |-> AppError("AI_SERVICE_ERROR",
      "AI service is temporarily overloaded. Please try again in a few moments.", 503)],
   [ok |-> FALSE, error |-> ValidationError(INVALID_BLOCK_MESSAGE)],
   [ok |-> FALSE, error |-> JsError("TypeError", Undef,
                                    Str("response.text is not a function"))]}

\* Some request in r's place, others untouched
Becomes(r, st) == reqs' = [reqs EXCEPT ![r] = st]

Logs(lines) == console' = console \o lines

\* app.js: auditLogMiddleware is entered for a new request, installs its
\* wrappers and calls next(): the route answers at once, or the API key
\* lookup is started
Arrive(r, req) ==
  LET st == [NoRequest EXCEPT !.req = req] IN
  /\ reqs[r].stage = "none"
  /\ \A q \in RequestIds : q < r => reqs[q].stage # "none"
  /\ IF req.path = "/health"
     THEN Becomes(r, Turn(ResJson(st, 200, HEALTH_BODY),
                          <<"auditLogMiddleware", "res.json", "res.send">>))
     ELSE IF ~IsProtected(req.path)
          THEN Becomes(r, Turn(NotFoundPage(st), <<"auditLogMiddleware", "res.end">>))
     ELSE IF ~Truthy(Property(req.headers, "x-api-key"))
          THEN Becomes(r, Turn(ResJson(st, 401, Failure("API key is required")),
                 <<"auditLogMiddleware", "authenticateApiKey", "res.json", "res.send">>))
     ELSE Becomes(r, Turn([st EXCEPT !.stage = "authenticating"],
                          <<"auditLogMiddleware", "authenticateApiKey", "findUnique">>))
  /\ UNCHANGED <<engineVars, arg, ret, notifyVars, processVars, immediates,
                 auditLog, slackCalls>>

\* auth.js: the lookup of the API key settles
LookupDone(r, found) ==
  LET st     == reqs[r]
      record == findUnique(Property(st.req.headers, "x-api-key").s)
      reply  == IF found THEN AuthReply(record) ELSE sendErrorResponse(DATABASE_DOWN)
  IN
  /\ st.stage = "authenticating"
  /\ IF reply = Null
     THEN /\ Becomes(r, Turn([st EXCEPT !.stage = "updating"],
                             <<"authenticateApiKey", "update">>))
          /\ UNCHANGED console
     ELSE /\ Becomes(r, Turn(ResJson(st, reply.statusCode, reply.body),
                             <<"authenticateApiKey", "res.json", "res.send">>))
          /\ Logs(IF ~found THEN <<AUTH_ERROR_LINE>>
                  ELSE IF record # Null /\ record.user = Null
                       THEN <<AUTH_RELATION_LINE>> ELSE << >>)
  /\ UNCHANGED <<engineVars, arg, ret, notifyVars, unhandled, immediates,
                 auditLog, slackCalls>>

\* auth.js: the update of lastUsedAt settles, req.user is set and next()
\* enters generateKeywords, which answers a body without its fields at once
\* and otherwise starts the AI call
UpdateDone(r, updated) ==
  LET st   == [reqs[r] EXCEPT
                 !.user = findUnique(Property(reqs[r].req.headers, "x-api-key").s).user]
      body == st.req.body
      warn == IF updated THEN << >> ELSE <<AUTH_UPDATE_LINE>>
  IN
  /\ reqs[r].stage = "updating"
  /\ IF ~Truthy(Property(body, "jobDescription")) \/ ~Truthy(Property(body, "skills"))
     THEN /\ Becomes(r, Turn(ResJson(st, 400,
                 Obj(<<Entry("error", Str("Missing or invalid jobDescription or skills"))>>)),
                 <<"generateKeywords", "res.json", "res.send">>))
          /\ Logs(warn \o <<KEYWORDS_MISSING_LINE>>)
     ELSE /\ Becomes(r, Turn([st EXCEPT !.stage = "handling"],
                             <<"generateKeywords", "generateContentWithFallback">>))
          /\ Logs(warn)
  /\ UNCHANGED <<engineVars, arg, ret, notifyVars, unhandled, immediates,
                 auditLog, slackCalls>>

\* app.js: the error middleware for uploads answers err itself
IsUploadError(err) ==
  \/ err.class = "Error" /\ err.code = Str("LIMIT_FILE_SIZE")
  \/ err.class = "AppError" /\ err.errorCode = "INVALID_FILE_TYPE"
  \/ err.class = "AppError" /\ err.message = "Only PDFs are allowed"
  \/ err.class = "Error" /\ err.message = Str("Only PDFs are allowed")

\* keywords.js: the AI call and the extraction are over; the controller
\* answers the result, or hands the error to the error middlewares of
\* app.js, the last of which logs it and answers it normalized
HandlerDone(r, result) ==
  LET st == reqs[r] IN
  /\ st.stage = "handling"
  /\ IF result.ok
     THEN /\ Becomes(r, Turn(ResJson(st, st.statusCode,
                                     Obj(<<Entry("result", result.value)>>)),
                             <<"generateKeywords", "res.json", "res.send">>))
          /\ UNCHANGED console
     ELSE /\ Becomes(r, Turn(ResJson(st, sendErrorResponse(result.error).statusCode,
                                     sendErrorResponse(result.error).body),
                             <<"next(error)", "sendErrorResponse", "res.json",
                               "res.send">>))
          /\ Logs(IF IsUploadError(result.error) THEN << >> ELSE <<ERROR_LINE>>)
  /\ UNCHANGED <<engineVars, arg, ret, notifyVars, unhandled, immediates,
                 auditLog, slackCalls>>

\* OnFinish altered: the insert is started in the handler of 'finish' itself
OnFinishInsertingInline(r) ==
  LET st == reqs[r] IN
  /\ st.stage = "responded"
  /\ Becomes(r, Turn([st EXCEPT
         !.auditLogData = BuildAuditLogData(st.req, st.user, st.statusCode,
                                            st.responseBody),
         !.stage = "persisting"],
       <<"finish", "createAuditLog", "auditLog.create">>))
  /\ UNCHANGED <<engineVars, arg, ret, notifyVars, processVars, immediates,
                 auditLog, slackCalls>>

\* auditLog.js: the response has been written out and 'finish' fires: the
\* audit record is built and its insert queued with setImmediate
OnFinish(r) ==
  LET st == reqs[r] IN
  /\ st.stage = "responded"
  /\ Becomes(r, Turn([st EXCEPT
         !.auditLogData = BuildAuditLogData(st.req, st.user, st.statusCode,
                                            st.responseBody),
         !.stage = "finished"],
       <<"finish", "setImmediate">>))
  /\ immediates' = Append(immediates, r)
  /\ UNCHANGED <<engineVars, arg, ret, notifyVars, processVars, auditLog, slackCalls>>

\* The event loop runs the oldest setImmediate callback: createAuditLog
\* starts the insert and awaits it
RunImmediate ==
  LET r == Head(immediates) IN
  /\ immediates # << >>
  /\ immediates' = Tail(immediates)
  /\ Becomes(r, Turn([reqs[r] EXCEPT !.stage = "persisting"],
                     <<"createAuditLog", "auditLog.create">>))
  /\ UNCHANGED <<engineVars, arg, ret, notifyVars, processVars, auditLog, slackCalls>>

\* prisma.auditLog.create resolves: the row is stored
InsertOk(r) ==
  /\ reqs[r].stage = "persisting"
  /\ auditLog' = auditLog \cup {[request |-> r, data |-> reqs[r].auditLogData]}
  /\ Becomes(r, Turn([reqs[r] EXCEPT !.stage = "done"], <<"created">>))
  /\ UNCHANGED <<engineVars, arg, ret, notifyVars, processVars, immediates, slackCalls>>

\* InsertFail altered: the catch block queues the insert again
InsertFailRetrying(r, reason) ==
  /\ reqs[r].stage = "persisting"
  /\ Becomes(r, Turn([reqs[r] EXCEPT !.stage = "finished"],
                     <<"rejected", "catch", "console.error", "setImmediate">>))
  /\ Logs(<<AUDIT_FAILED_LINE \o " " \o reason>>)
  /\ immediates' = Append(immediates, r)
  /\ UNCHANGED <<engineVars, arg, ret, notifyVars, unhandled, auditLog, slackCalls>>

\* InsertFail altered: createAuditLog has no try block and its caller no
\* catch handler
InsertFailUncaught(r, reason) ==
  /\ reqs[r].stage = "persisting"
  /\ Becomes(r, Turn([reqs[r] EXCEPT !.stage = "done"], <<"rejected">>))
  /\ unhandled' = unhandled + 1
  /\ UNCHANGED <<engineVars, arg, ret, notifyVars, console, immediates, auditLog,
                 slackCalls>>

\* prisma.auditLog.create throws or rejects: createAuditLog catches and logs
InsertFail(r, reason) ==
  /\ reqs[r].stage = "persisting"
  /\ Becomes(r, Turn([reqs[r] EXCEPT !.stage = "done"],
                     <<"rejected", "catch", "console.error">>))
  /\ Logs(<<AUDIT_FAILED_LINE \o " " \o reason>>)
  /\ UNCHANGED <<engineVars, arg, ret, notifyVars, unhandled, immediates, auditLog,
                 slackCalls>>

InsertFailures == {"Can't reach database server"}

InitHttp ==
  /\ EngineIdle
  /\ SideIdle
  /\ arg = Null
  /\ ret = Null

NextHttp ==
  \/ \E r \in RequestIds, req \in Requests : Arrive(r, req)
  \/ \E r \in RequestIds, found \in BOOLEAN : LookupDone(r, found)
  \/ \E r \in RequestIds, updated \in BOOLEAN : UpdateDone(r, updated)
  \/ \E r \in RequestIds, result \in HandlerResults : HandlerDone(r, result)
  \/ \E r \in RequestIds : OnFinish(r)
  \/ RunImmediate
  \/ \E r \in RequestIds : InsertOk(r)
  \/ \E r \in RequestIds, reason \in InsertFailures : InsertFail(r, reason)

SpecHttp == InitHttp /\ [][NextHttp]_vars

\* ----- Properties of the HTTP pipeline -----------------------------------

\* The event ev is one of those of the turn
Has(turn, ev) == \E n \in 1..Len(turn) : turn[n] = ev

\* The turns of request r in which ev happened
TurnsWith(r, ev) == {k \in 1..Len(reqs[r].turns) : Has(reqs[r].turns[k], ev)}

\* The events that write the response out
ResponseEvents == {"res.json", "res.send", "res.end"}

\* C11: the audit insert of a request is started in a turn of the event loop
\* that comes after the turn of its 'finish' event, which itself comes no
\* earlier than the turn that wrote the response; the turn that starts the
\* insert writes no response and is not the turn of 'finish'; so the response
\* has been handed to the client, status and body, before the insert starts.
C11_InsertDeferred ==
  \A r \in RequestIds :
    \A k \in TurnsWith(r, "auditLog.create") :
      /\ \E j \in TurnsWith(r, "finish") : j < k
      /\ \A j \in TurnsWith(r, "finish") :
           \A w \in UNION {TurnsWith(r, ev) : ev \in ResponseEvents} : w <= j
      /\ ~Has(reqs[r].turns[k], "finish")
      /\ \A ev \in ResponseEvents : ~Has(reqs[r].turns[k], ev)
      /\ reqs[r].sent # Null

\* C11 witness: the insert of a request is under way, started by the
\* setImmediate callback after the response finished
C11_Witness ==
  \E r \in RequestIds :
    /\ reqs[r].stage = "persisting"
    /\ TurnsWith(r, "auditLog.create") # {}
    /\ TurnsWith(r, "setImmediate") # {}
    /\ reqs[r].sent # Null

\* The insert of request r was rejected
InsertFailed(r) ==
  /\ reqs[r].stage = "done"
  /\ Has(reqs[r].turns[Len(reqs[r].turns)], "rejected")

\* The audit middleware logged a failed insert
FailureLogged ==
  \E n \in 1..Len(console) : StartsWith(console[n], AUDIT_FAILED_LINE)

\* The row of request r is in the table
Audited(r) == \E row \in auditLog : row.request = r

\* A step in which the insert of r fails changes nothing but r's own stage
\* and history and the console
FailureContained(r) ==
  (reqs[r].stage = "persisting" /\ InsertFailed(r)') =>
    /\ reqs[r].sent' = reqs[r].sent
    /\ reqs[r].statusCode' = reqs[r].statusCode
    /\ \A q \in RequestIds \ {r} : reqs'[q] = reqs[q]
    /\ immediates' = immediates
    /\ auditLog' = auditLog
    /\ unhandled' = unhandled

\* C12: a failed audit insert is caught and logged: nothing is ever left
\* uncaught by the pipeline, every failed insert has its line on the console,
\* and the step in which it fails leaves the response sent for that request
\* and every other request, the queued inserts and the stored rows as they
\* were, so the requests that follow go through the pipeline as before.
C12_InsertFailureContained ==
  /\ [](unhandled = 0)
  /\ []((\E r \in RequestIds : InsertFailed(r)) => FailureLogged)
  /\ [][\A r \in RequestIds : FailureContained(r)]_vars

\* C12 witness: the insert of the first request failed, the client had its
\* response, and the request that came after it has its row in the table
C12_Witness ==
  /\ InsertFailed(1)
  /\ reqs[1].sent # Null
  /\ ~Audited(1)
  /\ reqs[2].stage = "done"
  /\ Audited(2)

\* The error code the audit record of a response should carry: the code the
\* sanitized body names, or HTTP_<status>
ExpectedErrorCode(data) ==
  LET body == data.responseBody IN
  IF body.t = "obj" /\ Truthy(Property(body, "errorCode"))
  THEN Property(body, "errorCode")
  ELSE IF body.t = "obj" /\ Truthy(Property(body, "error_code"))
       THEN Property(body, "error_code")
  ELSE Str("HTTP_" \o NatToString(data.statusCode.n))

\* The audit records built so far
AuditRecords ==
  {reqs[r].auditLogData : r \in {q \in RequestIds : reqs[q].auditLogData # Null}}

\* C15: an audit record of a response with status >= 400 carries the error
\* code of its sanitized response body (errorCode, else error_code) when the
\* body names one and HTTP_<status> otherwise; a record of a response with
\* status < 400 carries null as error code and as error message; the rows
\* stored are such records.
C15_ErrorCodeDerived ==
  /\ \A data \in AuditRecords :
       IF data.statusCode.n >= 400
       THEN data.errorCode = ExpectedErrorCode(data)
       ELSE data.errorCode = Null /\ data.errorMessage = Null
  /\ \A row \in auditLog : row.data = reqs[row.request].auditLogData

\* C15 witness: a 404 without a captured body is stored with HTTP_404, a
\* standardized 503 with the code of its body, and a 200 with no code
C15_Witness ==
  /\ \E row \in auditLog :
       /\ row.data.statusCode = Num(404)
       /\ row.data.errorCode = Str("HTTP_404")
  /\ \E row \in auditLog :
       \/ row.data.statusCode = Num(503) /\ row.data.errorCode = Str("AI_SERVICE_ERROR")
       \/ row.data.statusCode = Num(200) /\ row.data.errorCode = Null

\* slackNotifier.js: the error codes that require attention
AttentionCodes ==
  {"DATABASE_ERROR", "DATABASE_CONNECTION_ERROR", "CONFIGURATION_ERROR",
   "AI_SERVICE_ERROR", "SERVICE_UNAVAILABLE"}

\* Request r ended with a status or an error code that requires attention
EndedNeedingAttention(r) ==
  /\ reqs[r].stage = "done"
  /\ \/ reqs[r].statusCode >= 500
     \/ /\ reqs[r].sent.body.t = "obj"
        /\ Property(reqs[r].sent.body, "errorCode").t = "str"
        /\ Property(reqs[r].sent.body, "errorCode").s \in AttentionCodes

\* C14 as claimed: for every request that ended with a status >= 500 or one
\* of the error codes that require attention, the notifier was called exactly
\* once.
C14_AsClaimed ==
  \A r \in RequestIds :
    EndedNeedingAttention(r) =>
      Cardinality({n \in 1..Len(slackCalls) : slackCalls[n].request = r}) = 1

\* The keys of the standardized error payload
StandardKeys == {"success", "error", "errorCode", "message", "details", "timestamp"}

\* errors.js: the shape AppError.toJSON gives an error response
IsStandardized(body) ==
  /\ body.t = "obj"
  /\ Property(body, "success") = Bool(FALSE)
  /\ \A key \in {"error", "errorCode", "message", "timestamp"} :
       Property(body, key).t = "str"
  /\ \A n \in 1..Len(body.e) : body.e[n].k \in StandardKeys

\* The turn that wrote the response of request r
AnsweredBy(r, component) ==
  \E k \in TurnsWith(r, "res.json") : Has(reqs[r].turns[k], component)

\* C16 as claimed: every response with status >= 400 that the error
\* middleware or the API-key authentication middleware sent has the
\* standardized shape.
C16_AsClaimed ==
  \A r \in RequestIds :
    (/\ reqs[r].sent # Null
     /\ reqs[r].sent.statusCode >= 400
     /\ AnsweredBy(r, "next(error)") \/ AnsweredBy(r, "authenticateApiKey"))
    => IsStandardized(reqs[r].sent.body)

\* ----- Timeouts in the invocation engine (checked under Spec) -------------

\* The step is the rejection of a call with an error whose message
\* indicates a timeout, while retries remain on the credential in use
TimeoutFailureStep ==
  /\ Len(log') > Len(log)
  /\ log'[Len(log) + 1].ev = "fail"
  /\ MessageHas(log'[Len(log) + 1].error, "timeout")
  /\ retryAttempt < maxRetries

\* C21 as claimed: a failure whose message indicates a timeout is retryable:
\* while retries remain, the engine sleeps the backoff delay and then calls
\* the same credential again instead of leaving it after one attempt.
C21_AsClaimed ==
  [][TimeoutFailureStep =>
       /\ pc' = "sleeping"
       /\ i' = i
       /\ retryAttempt' = retryAttempt + 1]_vars

\* ----- The brace span strategy (checked under SpecExtract) ----------------

\* The text has no fenced json block and is not valid JSON as a whole
NeedsSpan(text) == ~MatchJsonBlock(text).found /\ ~IsValidJson(text)

\* The span from the first { to the last } of the text exists and is valid
\* JSON
SpanIsValid(text) ==
  MatchBraces(text).found /\ IsValidJson(MatchBraces(text).text)

\* C22 as claimed: for a text with no fenced json block whose whole-text
\* parse fails, extractJSONFromString returns the value of the span from the
\* first { to the last } when that span is valid JSON, and throws the
\* no-JSON-object error only when that span is missing or invalid.
C22_AsClaimed ==
  (ret # Null /\ NeedsSpan(arg)) =>
    IF SpanIsValid(arg)
    THEN ret.out.ok /\ ret.out.value = JsonParse(MatchBraces(arg).text).v
    ELSE ~ret.out.ok /\ ret.out.error = ValidationError(NO_JSON_MESSAGE)

\* ----- One insert per finished response (checked under SpecHttp) ---------

\* How many callbacks queued with setImmediate belong to request r
Queued(r) == Cardinality({k \in 1..Len(immediates) : immediates[k] = r})

\* How many times the insert of request r was started
Inserts(r) == Cardinality(TurnsWith(r, "auditLog.create"))

\* In every state: 'finish' fired at most once for r; a record exists exactly
\* when it fired; the inserts started and queued for r are together as many
\* as its 'finish' events; an insert that ended, stored or rejected, was
\* started once and none is queued; at most one row is stored for r
OneInsert(r) ==
  /\ Cardinality(TurnsWith(r, "finish")) <= 1
  /\ (reqs[r].auditLogData # Null) <=> (TurnsWith(r, "finish") # {})
  /\ Inserts(r) + Queued(r) = Cardinality(TurnsWith(r, "finish"))
  /\ reqs[r].stage = "done" => (Inserts(r) = 1 /\ Queued(r) = 0)
  /\ Cardinality({row \in auditLog : row.request = r}) <= 1

\* In every step: the record is built in the step of 'finish', from the
\* request, the user, the status and the captured body of that moment, and
\* never changes afterwards; a request whose insert ended never changes again
BuiltOnce(r) ==
  /\ (TurnsWith(r, "finish") = {} /\ TurnsWith(r, "finish")' # {}) =>
       reqs'[r].auditLogData =
         BuildAuditLogData(reqs[r].req, reqs[r].user, reqs[r].statusCode,
                           reqs[r].responseBody)
  /\ reqs[r].auditLogData # Null => reqs'[r].auditLogData = reqs[r].auditLogData
  /\ reqs[r].stage = "done" => reqs'[r] = reqs[r]

TOO_MANY_KEYS == Entry("...", Str("[Too many keys, truncated]"))

RECURSIVE MappingsCapped(_)
\* Every mapping of the value has at most 51 entries, at most 50 of them
\* other than the too-many-keys marker, and nothing after the marker
MappingsCapped(v) ==
  CASE v.t = "obj" ->
         /\ Len(v.e) <= 51
         /\ Cardinality({n \in 1..Len(v.e) : v.e[n] # TOO_MANY_KEYS}) <= 50
         /\ \A n \in 1..Len(v.e) : v.e[n] = TOO_MANY_KEYS => n = Len(v.e)
         /\ \A n \in 1..Len(v.e) : MappingsCapped(v.e[n].v)
    [] v.t = "arr" -> \A j \in 1..Len(v.a) : MappingsCapped(v.a[j])
    [] OTHER -> TRUE

\* C24 as claimed: a sanitized mapping has at most 51 entries: at most 50
\* taken from the input, then at most one '...' too-many-keys marker, and no
\* input entry after the marker.
C24_AsClaimed ==
  ret # Null => MappingsCapped(ret.out)

\* ----- The depth cap (checked under SpecSanitize) -------------------------

MAX_DEPTH_REACHED == Str("[Max Depth Reached]")

RECURSIVE ReachesDepth3(_, _)
\* The value v, found at depth d <= 3, is or holds a value at depth 3
ReachesDepth3(v, d) ==
  \/ d = 3
  \/ v.t = "obj" /\ \E n \in 1..Len(v.e) : ReachesDepth3(v.e[n].v, d + 1)
  \/ v.t = "arr" /\ \E j \in 1..Len(v.a) : ReachesDepth3(v.a[j], d + 1)

RECURSIVE DeepValuesMarked(_, _, _)
\* Every value of inp at depth 3 has the depth marker at its place in out
DeepValuesMarked(inp, out, d) ==
  IF d = 3 THEN out = MAX_DEPTH_REACHED
  ELSE CASE inp.t = "obj" ->
              \A n \in 1..Len(inp.e) :
                ReachesDepth3(inp.e[n].v, d + 1) =>
                  /\ out.t = "obj"
                  /\ HasKey(out.e, inp.e[n].k)
                  /\ DeepValuesMarked(inp.e[n].v, ValueOf(out.e, inp.e[n].k), d + 1)
         [] inp.t = "arr" ->
              \A j \in 1..Len(inp.a) :
                ReachesDepth3(inp.a[j], d + 1) =>
                  /\ out.t = "arr"
                  /\ j <= Len(out.a)
                  /\ DeepValuesMarked(inp.a[j], out.a[j], d + 1)
         [] OTHER -> TRUE

\* C25 as claimed: with the root at depth 0, every value at depth 3 of the
\* input, whatever its type, is replaced by '[Max Depth Reached]'.
C25_AsClaimed ==
  ret # Null => DeepValuesMarked(arg, ret.out, 0)

RECURSIVE ReachedValuesMarked(_, _, _)
\* Every value of inp at depth 3 that the walk reaches has the depth marker
\* at its place in out; an entry with a sensitive key has the redaction
\* marker instead of its value; an element past the tenth and an entry from
\* the cut of its mapping on have no place in out
ReachedValuesMarked(inp, out, d) ==
  IF d >= 3 THEN out = MAX_DEPTH_REACHED
  ELSE CASE inp.t = "obj" ->
              /\ out.t = "obj"
              /\ \A n \in 1..Len(inp.e) :
                   LET key == inp.e[n].k
                   IN  IF n >= CutIndex(inp.e)
                       THEN key # "..." => ~HasKey(out.e, key)
                       ELSE /\ HasKey(out.e, key)
                            /\ IF NamesSecret(key)
                               THEN ValueOf(out.e, key) = REDACTED
                               ELSE ReachedValuesMarked(inp.e[n].v,
                                      ValueOf(out.e, key), d + 1)
         [] inp.t = "arr" ->
              /\ out.t = "arr"
              /\ Len(out.a) = (IF Len(inp.a) < 10 THEN Len(inp.a) ELSE 10)
              /\ \A j \in 1..Len(out.a) :
                   ReachedValuesMarked(inp.a[j], out.a[j], d + 1)
         [] OTHER -> TRUE

RECURSIVE OnlyMarkersAtDepth3(_, _)
\* The value out, found at depth d, holds nothing at depth 3 but markers,
\* and so nothing deeper
OnlyMarkersAtDepth3(out, d) ==
  IF d >= 3
  THEN out \in {MAX_DEPTH_REACHED, REDACTED, TOO_MANY_KEYS.v}
  ELSE CASE out.t = "obj" ->
              \A n \in 1..Len(out.e) : OnlyMarkersAtDepth3(out.e[n].v, d + 1)
         [] out.t = "arr" ->
              \A j \in 1..Len(out.a) : OnlyMarkersAtDepth3(out.a[j], d + 1)
         [] OTHER -> TRUE

\* C25: with maximum depth 3 and the root at depth 0, every value at depth 3
\* that the walk reaches (not under a sensitive key, not past the tenth
\* element of a sequence, not from the cut of a mapping on) is replaced by
\* '[Max Depth Reached]', whatever its type; a value under a sensitive key
\* is replaced by '[REDACTED]' and a value past a cap has no place in the
\* output; the output holds only markers at depth 3 and nothing deeper, so
\* no original value from depth 3 or deeper appears in it.
C25_DepthCapped ==
  ret # Null =>
    /\ ReachedValuesMarked(arg, ret.out, 0)
    /\ OnlyMarkersAtDepth3(ret.out, 0)

\* C25 witness: a mapping that sits at depth 3, with an entry at depth 4,
\* has been replaced by the depth marker
C25_Witness ==
  /\ ret # Null
  /\ arg = Obj(<<Entry("nested",
              Arr(<<Obj(<<Entry("nested", Obj(<<Entry("password", SECRET)>>))>>)>>))>>)
  /\ ret.out = Obj(<<Entry("nested",
                  Arr(<<Obj(<<Entry("nested", MAX_DEPTH_REACHED)>>)>>))>>)

\* ------------------------------------------------------------------------
\* normalizeError applied to the errors the handlers can hand over
\* ------------------------------------------------------------------------

ErrorNames ==
  {"Error", "TypeError", "SyntaxError", "ValidationError",
   "PrismaClientKnownRequestError", "PrismaClientInitializationError"}

ErrorCodes ==
  {Undef, Str("ECONNREFUSED"), Str("ETIMEDOUT"), Str("ENOTFOUND"), Str("P1001"),
   Str("P2002"), Str("P2025"), Str("LIMIT_FILE_SIZE"), Str("EACCES")}

ErrorMessages ==
  {Str(""), Str("boom"), Str("Unexpected token } in JSON at position 7"),
   Str("Invalid API key provided"), Str("API key is required")}

\* The errors normalizeError is applied to: errors of the application, built
\* with or without an explicit status, and errors of other origins
ErrorInputs ==
  {AppErrorWith(c, "x", s, d) :
     c \in {"VALIDATION_ERROR", "AI_SERVICE_ERROR", "DATABASE_ERROR", "NOT_FOUND",
            "SERVICE_UNAVAILABLE"},
     s \in {0, 503}, d \in {Null, SomeDetails}}
  \cup {JsError(n, c, m) : n \in ErrorNames, c \in ErrorCodes, m \in ErrorMessages}

InitNormalize ==
  /\ EngineIdle
  /\ SideIdle
  /\ arg \in ErrorInputs
  /\ ret = Null

\* errors.js: normalizeError(error) is called
ApplyNormalizeError ==
  /\ ret = Null
  /\ ret' = [fn |-> "normalizeError", out |-> normalizeError(arg)]
  /\ UNCHANGED <<engineVars, arg, sideVars>>

\* errors.js sendErrorResponse: normalizeError is called on an error that was
\* normalized before
ApplyNormalizeAgain ==
  /\ ret # Null
  /\ ret.fn = "normalizeError"
  /\ ret' = [fn |-> "normalizeError twice", first |-> ret.out,
             out |-> normalizeError(ret.out)]
  /\ UNCHANGED <<engineVars, arg, sideVars>>

\* app.js: the central error handler normalizes the error, logs its code,
\* message and status and hands the normalized error to sendErrorResponse
ApplyErrorHandler ==
  /\ ret = Null
  /\ LET normalizedError == normalizeError(arg)
     IN  ret' = [fn |-> "errorHandler",
                 logged |-> [errorCode |-> normalizedError.errorCode,
                             message |-> normalizedError.message,
                             statusCode |-> normalizedError.statusCode],
                 sent |-> sendErrorResponse(normalizedError)]
  /\ UNCHANGED <<engineVars, arg, sideVars>>

NextNormalize == ApplyNormalizeError \/ ApplyNormalizeAgain \/ ApplyErrorHandler

SpecNormalize == InitNormalize /\ [][NextNormalize]_vars

\* ----- Properties of normalizeError (checked under SpecNormalize) ---------

\* The error is no AppError and carries a connection code: ECONNREFUSED,
\* ETIMEDOUT, ENOTFOUND or a code that starts with P1
IsConnectionFailure(error) ==
  /\ error.class = "Error"
  /\ Truthy(error.code)
  /\ \/ StartsWith(error.code.s, "P1")
     \/ error.code.s \in {"ECONNREFUSED", "ETIMEDOUT", "ENOTFOUND"}

\* C26 as claimed: normalizeError maps every database connection failure to
\* the service-unavailable kind with status 503, never to a database or
\* internal error with status 500.
C26_AsClaimed ==
  (ret # Null /\ IsConnectionFailure(arg)) =>
    (ret.fn = "normalizeError" =>
       /\ ret.out.statusCode = 503
       /\ ret.out.errorCode \in {"SERVICE_UNAVAILABLE", "DATABASE_CONNECTION_ERROR"})

\* C30: normalizeError returns an AppError as it is, code, status, message
\* and details; what it returns for any error is an AppError, so applying it
\* to its own result changes nothing; and the code and the status the central
\* error handler logs are those of the response it sends.
C30_NormalizeIdempotent ==
  ret # Null =>
    /\ (ret.fn = "normalizeError" /\ arg.class = "AppError") => ret.out = arg
    /\ ret.fn = "normalizeError" => ret.out.class = "AppError"
    /\ ret.fn = "normalizeError twice" => ret.out = ret.first
    /\ ret.fn = "errorHandler" =>
         /\ ret.sent.statusCode = ret.logged.statusCode
         /\ Property(ret.sent.body, "errorCode") = Str(ret.logged.errorCode)
         /\ Property(ret.sent.body, "message") = Str(ret.logged.message)

\* C30 witness: an error that is no AppError was normalized to a validation
\* error with status 400, and normalizing that again returned it unchanged
C30_Witness ==
  /\ ret # Null
  /\ ret.fn = "normalizeError twice"
  /\ arg.class = "Error"
  /\ ret.first.errorCode = "VALIDATION_ERROR"
  /\ ret.out.statusCode = 400

\* ------------------------------------------------------------------------
\* sanitizeData applied to what it returned
\* ------------------------------------------------------------------------

\* sanitizeData(sanitizeData(data)): the second call, on the first result
ApplySanitizeAgain ==
  /\ ret # Null
  /\ ret.fn = "sanitizeData"
  /\ ret' = [fn |-> "sanitizeData twice", first |-> ret.out,
             out |-> SanitizeData(ret.out, DefaultMaxDepth, 0)]
  /\ UNCHANGED <<engineVars, arg, sideVars>>

NextResanitize == ApplySanitizeData \/ ApplySanitizeAgain

SpecResanitize == InitSanitize /\ [][NextResanitize]_vars

RECURSIVE Holds(_, _)
\* The value v is w or holds w somewhere inside
Holds(v, w) ==
  \/ v = w
  \/ v.t = "obj" /\ \E n \in 1..Len(v.e) : Holds(v.e[n].v, w)
  \/ v.t = "arr" /\ \E j \in 1..Len(v.a) : Holds(v.a[j], w)

\* C27: sanitizeData applied to a value it returned gives that value back:
\* truncated strings, capped sequences, capped mappings with their marker,
\* redaction markers and depth markers are left as they are.
C27_SanitizeIdempotent ==
  ret # Null => (ret.fn = "sanitizeData twice" => ret.out = ret.first)

\* C27 witness: a value whose first sanitization cut a mapping after fifty
\* entries, truncated a string, redacted an entry or put a depth marker, and
\* differs from the input, went through the second sanitization
C27_Witness ==
  /\ ret # Null
  /\ ret.fn = "sanitizeData twice"
  /\ ret.first # arg
  /\ ret.out = ret.first
  /\ \/ Holds(ret.first, TOO_MANY_KEYS.v)
     \/ Holds(ret.first, Str(Repeat("a", 1000) \o "... [truncated]"))

\* ----- Sensitive keys of every kind (checked under SpecSanitize) ----------

RECURSIVE SensitiveKeysRedacted(_)
\* Every entry of the value, at any depth, whose key names something secret
\* has the redaction marker as its value
SensitiveKeysRedacted(v) ==
  CASE v.t = "obj" ->
         \A n \in 1..Len(v.e) :
           IF NamesSecret(v.e[n].k) THEN v.e[n].v = REDACTED
           ELSE SensitiveKeysRedacted(v.e[n].v)
    [] v.t = "arr" -> \A j \in 1..Len(v.a) : SensitiveKeysRedacted(v.a[j])
    [] OTHER -> TRUE

RECURSIVE SensitiveEntriesKept(_, _, _)
\* Every entry of inp with a sensitive key that the walk reaches before the
\* cut of its mapping, the fifty-first entry and later ones included, is in
\* out with the redaction marker; one from the cut on is absent from out
SensitiveEntriesKept(inp, out, d) ==
  \/ d >= 3
  \/ CASE inp.t = "obj" ->
            /\ out.t = "obj"
            /\ \A n \in 1..Len(inp.e) :
                 LET key == inp.e[n].k
                 IN  IF NamesSecret(key)
                     THEN IF n < CutIndex(inp.e)
                          THEN HasKey(out.e, key) /\ ValueOf(out.e, key) = REDACTED
                          ELSE ~HasKey(out.e, key)
                     ELSE (n < CutIndex(inp.e)) =>
                            /\ HasKey(out.e, key)
                            /\ SensitiveEntriesKept(inp.e[n].v, ValueOf(out.e, key), d + 1)
       [] inp.t = "arr" ->
            /\ out.t = "arr"
            /\ \A j \in 1..Len(out.a) :
                 SensitiveEntriesKept(inp.a[j], out.a[j], d + 1)
       [] OTHER -> TRUE

\* C28: in the output of sanitizeData every mapping key whose lower-cased
\* name contains password, token, api_key, authorization, x-api-key, secret
\* or key has '[REDACTED]' as its value; a sensitive entry met after the
\* mapping already holds 50 entries is still written, with the marker; the
\* value of a sensitive entry is redacted or dropped and appears nowhere in
\* the output.
C28_SensitiveKeysRedacted ==
  ret # Null =>
    /\ SensitiveKeysRedacted(ret.out)
    /\ SensitiveEntriesKept(arg, ret.out, 0)
    /\ ~Holds(ret.out, SECRET)

\* C28 witness: a mapping whose fiftieth entry is a token and whose
\* fifty-first, met when fifty entries are written, a password: both are in
\* the output with the marker, the secret entry after the cut is not
C28_Witness ==
  /\ ret # Null
  /\ arg = Obj(Filler(49) \o <<Entry("token", Str("abc")), Entry("PassWord", SECRET),
                              Entry("z", Num(0)), Entry("secret", SECRET)>>)
  /\ ret.out = Obj(Filler(49) \o <<Entry("token", REDACTED), Entry("PassWord", REDACTED),
                                  TOO_MANY_KEYS>>)

\* ----- The body captured for the audit record (checked under SpecHttp) ----

\* The response of request r was written with res.json
UsedJson(r) == TurnsWith(r, "res.json") # {}

\* C29 as claimed: the response body stored in the audit record of a request
\* is the argument of the first res.json or res.send call of that request,
\* and its status the status of that response.
C29_AsClaimed ==
  \A row \in auditLog :
    UsedJson(row.request) =>
      /\ row.data.responseBody = reqs[row.request].sent.body
      /\ row.data.statusCode = Num(reqs[row.request].sent.statusCode)

\* The body captured for request r is the argument of its first res.json or
\* res.send call, null when none was made; the record built for r holds the
\* sanitized form of that body and the status of r's response
OwnFirstBody(r) ==
  /\ UsedJson(r) => reqs[r].responseBody = reqs[r].sent.body
  /\ ~UsedJson(r) => reqs[r].responseBody = Null /\ ~reqs[r].responseSent
  /\ reqs[r].auditLogData # Null =>
       /\ reqs[r].auditLogData.responseBody = SanitizeResponseBody(reqs[r].responseBody)
       /\ reqs[r].auditLogData.statusCode = Num(reqs[r].sent.statusCode)

\* A body once captured is not replaced by any later step, of this request
\* or of another
CaptureKept(r) ==
  reqs[r].responseSent =>
    /\ reqs'[r].responseSent
    /\ reqs'[r].responseBody = reqs[r].responseBody

\* C29: the body captured for a request is the argument of its first
\* res.json or res.send call: the res.send that res.json performs with the
\* JSON text and every later step leave it as it is; the audit record stores
\* the sanitized form of that body (sanitizeData of it, parsed first when it
\* is a JSON text), not the argument itself; and with requests interleaved
\* each record and each stored row holds the body and the status of its own
\* request.
C29_FirstBodyKept ==
  /\ [](\A r \in RequestIds : OwnFirstBody(r))
  /\ [](\A row \in auditLog :
          /\ row.data.responseBody
               = SanitizeResponseBody(reqs[row.request].responseBody)
          /\ row.data.statusCode = Num(reqs[row.request].sent.statusCode))
  /\ [][\A r \in RequestIds : CaptureKept(r)]_vars

\* C29 witness: two requests answered with res.json, the second finished
\* before the first, have records with different bodies and statuses, each
\* the sanitized form of its own first body
C29_Witness ==
  /\ immediates = <<2, 1>>
  /\ UsedJson(1) /\ UsedJson(2)
  /\ reqs[1].responseBody = reqs[1].sent.body
  /\ reqs[2].responseBody = reqs[2].sent.body
  /\ reqs[1].auditLogData.responseBody # reqs[2].auditLogData.responseBody
  /\ reqs[1].auditLogData.statusCode # reqs[2].auditLogData.statusCode
  /\ reqs[1].auditLogData.responseBody # reqs[1].responseBody

============================================================================
